---- MODULE Spec2Model ----
(***************************************************************************)
(* AlphaClaw: model-string registry (llm/registry.py), tool executor       *)
(* (agent/tools.py), agent loop wrapper (agent/loop.py) and the vendor     *)
(* adapters (llm/openai_.py, anthropic_.py, google_.py, mistral_.py,       *)
(* bedrock_.py, litellm_.py).                                              *)
(*                                                                         *)
(* Strings are sequences of one-character strings, so that splitting at a  *)
(* '/' and lower-casing are computed character by character.               *)
(***************************************************************************)
EXTENDS Integers, Sequences, FiniteSets, TLC

VARIABLES
    \* ---- parse_model_string applied to one input
    pin,        \* the model string handed to parse_model_string
    pout,       \* the pair it returned, once done
    \* ---- registry: module state and the get_provider calls in flight
    cache,      \* _cache: key -> adapter instance
    nextId,     \* identity of the next object constructed
    imported,   \* adapter modules imported so far (sys.modules)
    pc,         \* per thread: position inside get_provider
    frame,      \* per thread: the locals of the call in flight
    log,        \* completed get_provider calls, in order of completion
    epoch,      \* number of clear_cache calls so far
    built,      \* every adapter instance constructed so far
    \* ---- execute_tool applied to one request
    tin,        \* name, arguments and user_id of the request
    tout,       \* what the call gave back, once done
    \* ---- one run() invocation of the agent loop
    rin,        \* arguments of run() and the behaviour of the model behind it
    db,         \* the store: user rows and conversation rows
    rpc,        \* position of the invocation
    messages,   \* the message list of the agent run
    base,       \* how many messages the run started from (the history)
    rounds,     \* model requests made by this invocation
    issued,     \* tool-call ids issued by the model so far
    pending,    \* tool calls of the current round not yet executed
    requested,  \* ids of every tool call requested, in request order
    executed,   \* ids the tool executor was invoked with, in call order
    failed,     \* a model request of this invocation has failed
    output,     \* result.output: the text of the final model response
    rout,       \* what run() returned
    faults,     \* whether the load and the save of the history raised
    \* ---- an adapter's _convert_messages applied to one message list
    cin,        \* the caller's message list
    cout,       \* what the conversion gave back, once done
    \* ---- google_._strip_defaults applied to one schema
    sin,        \* the schema handed to _strip_defaults
    sout,       \* the stripped schema, and the result of stripping it again
    \* ---- one complete() call on one adapter
    call,       \* the adapter's vendor behaviour for this call
    callerMessages, \* the caller's messages list, as the caller sees it
    callerTools,    \* the caller's tools list, as the caller sees it
    cres,       \* what complete() gave back, once done
    \* ---- Settings.pydantic_ai_model applied to the configured model string
    pyd,        \* the model name handed to the agent, once computed
    \* ---- concurrent run() invocations persisting to one database
    pg,         \* the database: committed user and conversation rows
    sess,       \* per invocation: position and the rows its session read
    \* ---- Telegram / Slack handlers and their in-memory histories
    chan,       \* _histories of the channel, and the runs made so far
    handlers,   \* per handler in flight: position and locals
    \* ---- one websocket connection of the API server
    sock,       \* frames received, replies sent, agent.run calls
    \* ---- the reply of one handled message cut into pieces
    chunks,     \* the reply and the pieces sent so far
    \* ---- main.start()
    proc,       \* position of start(), channels, scheduler, server
    \* ---- _update_watchlist applied to one request
    watch       \* stored tickers, add, remove, and what was saved

parseVars == <<pin, pout>>
regVars == <<cache, nextId, imported, pc, frame, log, epoch, built>>
toolVars == <<tin, tout>>
runVars == <<rin, db, rpc, messages, base, rounds, issued, pending, requested,
            executed, failed, output, rout, faults>>
convVars == <<cin, cout>>
stripVars == <<sin, sout>>
compVars == <<call, callerMessages, callerTools, cres>>
llmVars == <<convVars, stripVars, compVars>>
storeVars == <<pg, sess>>
chanVars == <<chan, handlers>>
appVars == <<pyd, storeVars, chanVars, sock, chunks, proc, watch>>
coreVars == <<parseVars, regVars, toolVars, runVars, llmVars>>
vars == <<parseVars, regVars, toolVars, runVars, llmVars, appVars>>
notRegVars == <<parseVars, toolVars, runVars, llmVars, appVars>>
notParseVars == <<regVars, toolVars, runVars, llmVars, appVars>>
notToolVars == <<parseVars, regVars, runVars, llmVars, appVars>>
notRunVars == <<parseVars, regVars, toolVars, llmVars, appVars>>
notConvVars == <<parseVars, regVars, toolVars, runVars, stripVars, compVars, appVars>>
notStripVars == <<parseVars, regVars, toolVars, runVars, convVars, compVars, appVars>>
notCompVars == <<parseVars, regVars, toolVars, runVars, convVars, stripVars, appVars>>
notPydVars == <<coreVars, storeVars, chanVars, sock, chunks, proc, watch>>
notStoreVars == <<coreVars, pyd, chanVars, sock, chunks, proc, watch>>
notChanVars == <<coreVars, pyd, storeVars, sock, chunks, proc, watch>>
notSockVars == <<coreVars, pyd, storeVars, chanVars, chunks, proc, watch>>
notChunkVars == <<coreVars, pyd, storeVars, chanVars, sock, proc, watch>>
notProcVars == <<coreVars, pyd, storeVars, chanVars, sock, chunks, watch>>
notWatchVars == <<coreVars, pyd, storeVars, chanVars, sock, chunks, proc>>

(***************************************************************************)
(* Characters and strings                                                  *)
(***************************************************************************)
UpperChars == <<"A","B","C","D","E","F","G","H","I","J","K","L","M",
                "N","O","P","Q","R","S","T","U","V","W","X","Y","Z">>
LowerChars == <<"a","b","c","d","e","f","g","h","i","j","k","l","m",
                "n","o","p","q","r","s","t","u","v","w","x","y","z">>

\* str.lower() on one character
LowerChar(c) ==
    IF \E i \in 1..Len(UpperChars) : UpperChars[i] = c
    THEN LowerChars[CHOOSE i \in 1..Len(UpperChars) : UpperChars[i] = c]
    ELSE c

\* str.lower()
Lower(s) == [i \in 1..Len(s) |-> LowerChar(s[i])]

RECURSIVE FindFrom(_, _, _)
\* str.find from position i: index of the first c at or after i, 0 if none
FindFrom(s, c, i) ==
    IF i > Len(s) THEN 0
    ELSE IF s[i] = c THEN i
    ELSE FindFrom(s, c, i + 1)

RECURSIVE RFindFrom(_, _, _)
RFindFrom(s, c, i) ==
    IF i < 1 THEN 0
    ELSE IF s[i] = c THEN i
    ELSE RFindFrom(s, c, i - 1)

\* str.partition(c): <<head, sep, tail>> around the first c
Partition(s, c) ==
    LET i == FindFrom(s, c, 1) IN
    IF i = 0 THEN <<s, <<>>, <<>>>>
    ELSE <<SubSeq(s, 1, i - 1), <<c>>, SubSeq(s, i + 1, Len(s))>>

\* str.rpartition(c): around the last c
RPartition(s, c) ==
    LET i == RFindFrom(s, c, Len(s)) IN
    IF i = 0 THEN <<<<>>, <<>>, s>>
    ELSE <<SubSeq(s, 1, i - 1), <<c>>, SubSeq(s, i + 1, Len(s))>>

Contains(s, c) == \E i \in 1..Len(s) : s[i] = c

(***************************************************************************)
(* parse_model_string                                                      *)
(***************************************************************************)
\* a split at the last '/' instead of the first
parse_model_string_rpartition(model) ==
    IF Contains(model, "/")
    THEN LET p == RPartition(model, "/") IN <<Lower(p[1]), p[3]>>
    ELSE <<<<>>, model>>

parse_model_string(model) ==
    IF Contains(model, "/")
    THEN LET p == Partition(model, "/") IN <<Lower(p[1]), p[3]>>
    ELSE <<<<>>, model>>

\* ---- bounded inputs of parse_model_string
MaxLen == 4
Alphabet == {"a", "B", "/", ":"}
StringsUpTo(n) == UNION {[1..k -> Alphabet] : k \in 0..n}

NotParsed == [done |-> FALSE, prefix |-> <<>>, model_id |-> <<>>]

ParseIdle == pin = <<>> /\ pout = NotParsed
ParseInit == pin \in StringsUpTo(MaxLen) /\ pout = NotParsed

Parse ==
    /\ ~pout.done
    /\ LET r == parse_model_string(pin) IN
         pout' = [done |-> TRUE, prefix |-> r[1], model_id |-> r[2]]
    /\ UNCHANGED pin
    /\ UNCHANGED notParseVars

(***************************************************************************)
(* Registry: _PROVIDER_MAP, _SDK_PACKAGES, _cache                          *)
(***************************************************************************)
P_openai    == <<"o","p","e","n","a","i">>
P_azure     == <<"a","z","u","r","e">>
P_groq      == <<"g","r","o","q">>
P_together  == <<"t","o","g","e","t","h","e","r">>
P_ollama    == <<"o","l","l","a","m","a">>
P_vllm      == <<"v","l","l","m">>
P_anthropic == <<"a","n","t","h","r","o","p","i","c">>
P_gemini    == <<"g","e","m","i","n","i">>
P_google    == <<"g","o","o","g","l","e">>
P_mistral   == <<"m","i","s","t","r","a","l">>
P_bedrock   == <<"b","e","d","r","o","c","k">>

OpenAIPrefixes == {P_openai, P_azure, P_groq, P_together, P_ollama, P_vllm}
KnownPrefixes ==
    OpenAIPrefixes \cup {P_anthropic, P_gemini, P_google, P_mistral, P_bedrock}

\* _PROVIDER_MAP: prefix -> <<module, class>>
PROVIDER_MAP ==
    [p \in KnownPrefixes |->
        IF p \in OpenAIPrefixes THEN <<"openai_", "OpenAIProvider">>
        ELSE IF p = P_anthropic THEN <<"anthropic_", "AnthropicProvider">>
        ELSE IF p \in {P_gemini, P_google} THEN <<"google_", "GeminiProvider">>
        ELSE IF p = P_mistral THEN <<"mistral_", "MistralProvider">>
        ELSE <<"bedrock_", "BedrockProvider">>]

SdkModules == {"openai_", "anthropic_", "google_", "mistral_", "bedrock_"}
Modules == SdkModules \cup {"litellm_"}

\* _SDK_PACKAGES.get(module_name, module_name)
SDK_PACKAGES(module_name) ==
    CASE module_name = "openai_"    -> "openai"
      [] module_name = "anthropic_" -> "anthropic"
      [] module_name = "google_"    -> "google-genai"
      [] module_name = "mistral_"   -> "mistralai"
      [] module_name = "bedrock_"   -> "boto3"
      [] OTHER                      -> module_name

\* the package each adapter module imports at its top
ClientLibrary(module_name) ==
    IF module_name = "litellm_" THEN "litellm" ELSE SDK_PACKAGES(module_name)

\* the key _load_litellm caches the fallback adapter under
LitellmKey == <<"_","l","i","t","e","l","l","m">>
CacheKeys == KnownPrefixes \cup {LitellmKey}

\* settings.model, the configured default
SettingsModel == P_anthropic \o <<"/", "c">>

NoInstance == [id |-> 0, cls |-> "None", prefix |-> <<>>]
EmptyCache == [k \in CacheKeys |-> NoInstance]
InCache(k) == cache[k] # NoInstance

\* ---- bounds and inputs of the registry
NumThreads == 2
MaxCalls == 2
MaxClears == 1
Threads == 1..NumThreads

\* model strings handed to get_provider
ModelStrings ==
    { P_groq \o <<"/", "m">>,                 \* groq/m
      <<"G","r","o","q">> \o <<"/", "M">>,    \* Groq/M
      P_together \o <<"/", "m", "/", "L">>,   \* together/m/L
      <<"x", "/", "m">>,                      \* x/m: unknown prefix
      <<"m">>,                                \* no prefix
      <<"/", "m">>,                           \* nothing before the '/'
      <<>> }                                  \* the empty string

NoFrame ==
    [given |-> <<>>, prefix |-> <<>>, key |-> <<>>, model_id |-> <<>>, module |-> "",
     cls |-> "", fallback |-> FALSE, inst |-> NoInstance]

RegInit ==
    /\ cache = EmptyCache
    /\ nextId = 1
    /\ imported = {}
    /\ pc = [t \in Threads |-> "idle"]
    /\ frame = [t \in Threads |-> NoFrame]
    /\ log = <<>>
    /\ epoch = 0
    /\ built = {}

CallsStarted == Len(log) + Cardinality({t \in Threads : pc[t] # "idle"})

\* one completed call, as the caller sees it
Completed(f, outcome, provider, pkg, hint) ==
    [given |-> f.given, key |-> f.key, fallback |-> f.fallback,
     outcome |-> outcome, provider |-> provider, model_id |-> f.model_id,
     module |-> f.module, pkg |-> pkg, hint |-> hint, epoch |-> epoch]

\* a cache shared by every prefix that uses the same adapter class
ProviderCacheKey_by_class(prefix) ==
    IF prefix \in OpenAIPrefixes THEN P_openai
    ELSE IF prefix \in {P_gemini, P_google} THEN P_gemini
    ELSE prefix

\* _load_provider: the key an adapter is cached under is its prefix
ProviderCacheKey(prefix) == prefix

\* the fallback path handing on the id with its prefix cut off
FallbackModelId_stripped(model, model_id) == model_id

\* get_provider: the fallback adapter is given the full string
FallbackModelId(model, model_id) == model

\* get_provider up to the cache lookup of the loader it picks:
\* model = model or settings.model; parse; choose _load_provider or
\* _load_litellm; the full string is the model id on the fallback path
Route(given) ==
    LET model == IF given = <<>> THEN SettingsModel ELSE given
        parsed == parse_model_string(model)
        prefix == parsed[1]
        known == prefix # <<>> /\ prefix \in KnownPrefixes
    IN  [given |-> given, prefix |-> prefix,
         key |-> IF known THEN ProviderCacheKey(prefix) ELSE LitellmKey,
         model_id |-> IF known THEN parsed[2]
                      ELSE FallbackModelId(model, parsed[2]),
         module |-> IF known THEN PROVIDER_MAP[prefix][1] ELSE "litellm_",
         cls |-> IF known THEN PROVIDER_MAP[prefix][2] ELSE "LiteLLMProvider",
         fallback |-> ~known, inst |-> NoInstance]

\* get_provider(model) begins: on a cache hit it returns at once
GetProvider(t, given) ==
    /\ pc[t] = "idle"
    /\ CallsStarted < MaxCalls
    /\ LET f == Route(given) IN
         IF InCache(f.key)
         THEN /\ log' = Append(log, Completed(f, "returned", cache[f.key], "", ""))
              /\ UNCHANGED <<pc, frame>>
         ELSE /\ pc' = [pc EXCEPT ![t] = "load"]
              /\ frame' = [frame EXCEPT ![t] = f]
              /\ UNCHANGED log
    /\ UNCHANGED <<cache, nextId, imported, epoch, built>>
    /\ UNCHANGED notRegVars

\* what a failed import of the module raises to the caller of get_provider:
\* _load_provider wraps it, _load_litellm does not
ImportFailure(f) ==
    IF f.fallback
    THEN Completed(f, "raw_ImportError", NoInstance, "", "")
    ELSE LET pkg == SDK_PACKAGES(f.module) IN
         Completed(f, "ImportError", NoInstance, pkg, "uv add")

\* the adapter class is called: cls(prefix=prefix), LiteLLMProvider()
NewInstance(f) ==
    [id |-> nextId, cls |-> f.cls,
     prefix |-> IF f.fallback THEN <<"l","i","t","e","l","l","m">> ELSE f.prefix]

\* importlib.import_module fails: the client library is not installed
ImportFails(t) ==
    /\ pc[t] = "load"
    /\ frame[t].module \notin imported
    /\ log' = Append(log, ImportFailure(frame[t]))
    /\ pc' = [pc EXCEPT ![t] = "idle"]
    /\ frame' = [frame EXCEPT ![t] = NoFrame]
    /\ UNCHANGED <<cache, nextId, imported, epoch, built>>
    /\ UNCHANGED notRegVars

\* importlib.import_module succeeds and the adapter class is called
LoadModule(t) ==
    /\ pc[t] = "load"
    /\ imported' = imported \cup {frame[t].module}
    /\ frame' = [frame EXCEPT ![t].inst = NewInstance(frame[t])]
    /\ nextId' = nextId + 1
    /\ built' = built \cup {NewInstance(frame[t])}
    /\ pc' = [pc EXCEPT ![t] = "store"]
    /\ UNCHANGED <<cache, log, epoch>>
    /\ UNCHANGED notRegVars

\* _cache[key] = instance; return instance
StoreInstance(t) ==
    /\ pc[t] = "store"
    /\ cache' = [cache EXCEPT ![frame[t].key] = frame[t].inst]
    /\ log' = Append(log, Completed(frame[t], "returned", frame[t].inst, "", ""))
    /\ pc' = [pc EXCEPT ![t] = "idle"]
    /\ frame' = [frame EXCEPT ![t] = NoFrame]
    /\ UNCHANGED <<nextId, imported, epoch, built>>
    /\ UNCHANGED notRegVars

\* clear_cache()
ClearCache ==
    /\ epoch < MaxClears
    /\ cache' = EmptyCache
    /\ epoch' = epoch + 1
    /\ UNCHANGED <<nextId, imported, pc, frame, log, built>>
    /\ UNCHANGED notRegVars

AllIdle == \A t \in Threads : pc[t] = "idle"

\* a call starts only while no other call is in flight
GetProviderSeq(t, given) == AllIdle /\ GetProvider(t, given)
ClearCacheSeq == AllIdle /\ ClearCache

(***************************************************************************)
(* execute_tool                                                            *)
(***************************************************************************)
\* the tools execute_tool matches by name
KnownTools ==
    {"get_quote", "get_historical", "get_earnings", "get_company_info",
     "search_news", "search_filings", "get_watchlist", "update_watchlist",
     "compare_performance"}

\* TOOL_SCHEMAS: the "required" list of each tool's parameters
Required(name) ==
    CASE name \in {"get_quote", "get_historical", "get_earnings",
                   "get_company_info", "search_filings"} -> {"ticker"}
      [] name = "search_news" -> {"query"}
      [] name = "compare_performance" -> {"tickers"}
      [] OTHER -> {}

\* a dict result: its top-level keys and the text under "error", if any
Dict(keys, error) == [keys |-> keys, error |-> error]
NoDict == Dict({}, <<>>)

Returns(value) == [raised |-> FALSE, exc |-> <<>>, value |-> value]
Raises(exc) == [raised |-> TRUE, exc |-> exc, value |-> NoDict]

\* arguments[k]: KeyError when k is absent, else go on with the call
Subscript(arguments, k, rest) ==
    IF k \in DOMAIN arguments THEN rest ELSE Raises(<<"KeyError", k>>)

\* a provider or repository call: its dict, or the exception it raises
Impl(impl_ok, keys) ==
    IF impl_ok THEN Returns(Dict(keys, <<>>))
    ELSE Raises(<<"Exception", "impl">>)

\* _get_watchlist(user_id)
get_watchlist(user_id, impl_ok) ==
    IF user_id = "" THEN Returns(Dict({"tickers", "note"}, <<>>))
    ELSE Impl(impl_ok, {"tickers", "name"})

\* _update_watchlist(user_id, add, remove), without the list it saves
update_watchlist(user_id, impl_ok) ==
    IF user_id = ""
    THEN Returns(Dict({"error"}, <<"No user context">>))
    ELSE Impl(impl_ok, {"tickers", "name"})

\* the match statement inside the try block
MatchTool(name, arguments, user_id, impl_ok) ==
    CASE name = "get_quote" ->
            Subscript(arguments, "ticker", Impl(impl_ok, {"ticker", "price"}))
      [] name = "get_historical" ->
            Subscript(arguments, "ticker", Impl(impl_ok, {"ticker", "data"}))
      [] name = "get_earnings" ->
            Subscript(arguments, "ticker", Impl(impl_ok, {"ticker", "data"}))
      [] name = "get_company_info" ->
            Subscript(arguments, "ticker", Impl(impl_ok, {"ticker", "name"}))
      [] name = "search_news" ->
            Subscript(arguments, "query", Impl(impl_ok, {"query", "articles"}))
      [] name = "search_filings" ->
            Subscript(arguments, "ticker", Impl(impl_ok, {"ticker", "filings"}))
      [] name = "get_watchlist" -> get_watchlist(user_id, impl_ok)
      [] name = "update_watchlist" -> update_watchlist(user_id, impl_ok)
      [] name = "compare_performance" ->
            Subscript(arguments, "tickers",
                      Impl(impl_ok, {"benchmark", "comparisons"}))
      [] OTHER -> Returns(Dict({"error"}, <<"Unknown tool: ", name>>))

\* json.dumps(result, default=str): the string holding the object
Dumps(value) ==
    [raised |-> FALSE, exc |-> <<>>, type |-> "str", json |-> value]
Propagates(exc) ==
    [raised |-> TRUE, exc |-> exc, type |-> "", json |-> NoDict]

\* an except clause that lets the KeyError of a missing argument through
execute_tool_keyerror_escapes(name, arguments, user_id, impl_ok) ==
    LET body == MatchTool(name, arguments, user_id, impl_ok) IN
    IF body.raised /\ body.exc[1] = "KeyError" THEN Propagates(body.exc)
    ELSE IF body.raised THEN Dumps(Dict({"error"}, body.exc))
    ELSE Dumps(body.value)

\* try: match ...; except Exception as e: result = {"error": str(e)};
\* return json.dumps(result, default=str)
execute_tool(name, arguments, user_id, impl_ok) ==
    LET body == MatchTool(name, arguments, user_id, impl_ok) IN
    IF body.raised THEN Dumps(Dict({"error"}, body.exc))
    ELSE Dumps(body.value)

\* ---- inputs of execute_tool
ToolNames == KnownTools \cup {"get_latest_brief", "bogus"}
ArgKeys == {"ticker", "query", "tickers", "period"}
ArgumentMaps == UNION {[K -> {"v"}] : K \in SUBSET ArgKeys}
UserIds == {"", "u1"}

NotExecuted ==
    [done |-> FALSE, failed_inside |-> FALSE, raised |-> FALSE, exc |-> <<>>,
     type |-> "", json |-> NoDict]

ToolIdle ==
    /\ tin = [name |-> "bogus", arguments |-> <<>>, user_id |-> ""]
    /\ tout = NotExecuted

ToolInit ==
    /\ tin \in [name : ToolNames, arguments : ArgumentMaps, user_id : UserIds]
    /\ tout = NotExecuted

\* one call of execute_tool; the implementation behind the tool works or fails
ExecuteTool ==
    /\ ~tout.done
    /\ \E impl_ok \in BOOLEAN :
         LET r == execute_tool(tin.name, tin.arguments, tin.user_id, impl_ok)
             body == MatchTool(tin.name, tin.arguments, tin.user_id, impl_ok)
         IN tout' = [done |-> TRUE, failed_inside |-> body.raised,
                     raised |-> r.raised, exc |-> r.exc, type |-> r.type,
                     json |-> r.json]
    /\ UNCHANGED tin
    /\ UNCHANGED notToolVars

(***************************************************************************)
(* run(): agent/loop.py around agent.run                                   *)
(*                                                                         *)
(* The rounds inside agent.run (model request, tool execution, final       *)
(* answer) are not part of agent/loop.py; they follow section 4.4 of the   *)
(* specification. What run() itself does around them follows the code.     *)
(***************************************************************************)
MAX_HISTORY == 40

\* ---- bounds of the agent run
MaxRounds == 11       \* rounds after which the model stops asking for tools
MaxToolCalls == 2     \* tool calls the model requests per round

Msg(role, content, calls, call_id) ==
    [role |-> role, content |-> content, calls |-> calls, call_id |-> call_id]
UserMsg(text) == Msg("user", text, <<>>, 0)
AssistantMsg(text) == Msg("assistant", text, <<>>, 0)
AssistantCalls(ids) == Msg("assistant", "", ids, 0)
ToolMsg(id, content) == Msg("tool", content, <<>>, id)

\* messages[-n:]
LastN(msgs, n) ==
    IF Len(msgs) <= n THEN msgs ELSE SubSeq(msgs, Len(msgs) - n + 1, Len(msgs))

\* ModelMessagesTypeAdapter.dump_python(..., mode="json") and validate_python
DumpPython(msgs) == [i \in 1..Len(msgs) |-> [json |-> msgs[i]]]
ValidatePython(rows) == [i \in 1..Len(rows) |-> rows[i].json]

OldHistory == <<UserMsg("earlier"), AssistantMsg("earlier answer")>>
Texts == {"AAPL is $150", "ok"}
Channel == "web"

NoHistory == [given |-> FALSE, msgs |-> <<>>]
Histories ==
    {NoHistory, [given |-> TRUE, msgs |-> <<>>], [given |-> TRUE, msgs |-> OldHistory]}

EmptyDb == [users |-> {}, convs |-> <<>>]
StoredDb ==
    [users |-> {"u1"},
     convs |-> <<[user_id |-> "u1", channel |-> Channel,
                  messages |-> DumpPython(OldHistory)]>>]

NotReturned == [done |-> FALSE, reply |-> "", messages |-> <<>>]
\* whether the load and the save of this run raised
NoFaults == [load |-> FALSE, save |-> FALSE]

RunIdle ==
    /\ rin = [user_message |-> "hi", history |-> NoHistory, user_id |-> "",
              calls_per_round |-> 1, tools_ok |-> TRUE]
    /\ db = EmptyDb
    /\ rpc = "start"
    /\ messages = <<>>
    /\ base = 0
    /\ rounds = 0
    /\ issued = 0
    /\ pending = <<>>
    /\ requested = <<>>
    /\ executed = <<>>
    /\ failed = FALSE
    /\ output = ""
    /\ rout = NotReturned
    /\ faults = NoFaults

RunInit ==
    /\ rin \in [user_message : {"hi"}, history : Histories, user_id : UserIds,
                calls_per_round : 1..MaxToolCalls, tools_ok : BOOLEAN]
    /\ db \in {EmptyDb, StoredDb}
    /\ rpc = "start"
    /\ messages = <<>>
    /\ base = 0
    /\ rounds = 0
    /\ issued = 0
    /\ pending = <<>>
    /\ requested = <<>>
    /\ executed = <<>>
    /\ failed = FALSE
    /\ output = ""
    /\ rout = NotReturned
    /\ faults = NoFaults

\* Repository.get_or_create_user: the store with the user's row in it
get_or_create_user(store, user_id) ==
    [store EXCEPT !.users = @ \cup {user_id}]

\* indexes of the conversation rows of a user and channel
ConvRows(store, user_id, channel) ==
    {i \in 1..Len(store.convs) :
        store.convs[i].user_id = user_id /\ store.convs[i].channel = channel}

\* Repository.save_conversation: update the row found, or add one
save_conversation(store, user_id, channel, rows) ==
    LET found == ConvRows(store, user_id, channel) IN
    IF found = {}
    THEN [store EXCEPT !.convs =
            Append(@, [user_id |-> user_id, channel |-> channel, messages |-> rows])]
    ELSE [store EXCEPT !.convs[CHOOSE i \in found : TRUE].messages = rows]

\* the history run() hands to agent.run after a successful load
LoadedHistory(store, user_id, channel) ==
    LET found == ConvRows(store, user_id, channel) IN
    IF found = {} THEN <<>>
    ELSE ValidatePython(store.convs[CHOOSE i \in found : TRUE].messages)

\* a handler that goes on with the history of an earlier run
HistoryAfterLoadError_stale == OldHistory

\* except Exception: history = None, and then `history or []`
HistoryAfterLoadError == <<>>

\* run() up to the call of agent.run: the history is loaded from the store
\* when none was given and the user is known; a failed load starts fresh
RunStart ==
    /\ rpc = "start"
    /\ \E load_ok \in BOOLEAN, user_ok \in BOOLEAN :
         LET load == ~rin.history.given /\ rin.user_id # ""
             history == IF ~load THEN rin.history.msgs
                        ELSE IF load_ok /\ user_ok
                        THEN LoadedHistory(db, rin.user_id, Channel)
                        ELSE HistoryAfterLoadError
         IN /\ db' = IF load /\ user_ok
                     THEN get_or_create_user(db, rin.user_id) ELSE db
            /\ messages' = Append(history, UserMsg(rin.user_message))
            /\ base' = Len(history)
            /\ faults' = [faults EXCEPT !.load = load /\ ~(load_ok /\ user_ok)]
    /\ rpc' = "model"
    /\ UNCHANGED <<rin, rounds, issued, pending, requested, executed, failed,
                   output, rout>>
    /\ UNCHANGED notRunVars

\* a round whose response has no tool calls: the final text is appended
ModelAnswers(text) ==
    /\ rpc = "model"
    /\ rounds' = rounds + 1
    /\ messages' = Append(messages, AssistantMsg(text))
    /\ output' = text
    /\ rpc' = "persist"
    /\ UNCHANGED <<faults, rin, db, base, issued, pending, requested, executed,
                   failed, rout>>
    /\ UNCHANGED notRunVars

\* a round whose response requests tool calls
ModelRequestsTools ==
    /\ rpc = "model"
    /\ rounds < MaxRounds
    /\ LET ids == [k \in 1..rin.calls_per_round |-> issued + k] IN
         /\ messages' = Append(messages, AssistantCalls(ids))
         /\ pending' = ids
         /\ requested' = requested \o ids
    /\ rounds' = rounds + 1
    /\ issued' = issued + rin.calls_per_round
    /\ rpc' = "tools"
    /\ UNCHANGED <<faults, rin, db, base, executed, failed, output, rout>>
    /\ UNCHANGED notRunVars

\* the text a tool result string stands for in a tool message
ToolContent(r) == IF "error" \in r.json.keys THEN "error" ELSE "result"

\* a round that gives up on the calls after the first
RemainingAfter_none(calls) == <<>>

\* the calls still to execute once the first is done
RemainingAfter(calls) == Tail(calls)

\* the first pending call is executed and its tool message appended
ExecutePending ==
    /\ rpc = "tools"
    /\ pending # <<>>
    /\ LET id == Head(pending)
           r == execute_tool("get_quote", [k \in {"ticker"} |-> "v"],
                             rin.user_id, rin.tools_ok)
       IN /\ executed' = Append(executed, id)
          /\ messages' = Append(messages, ToolMsg(id, ToolContent(r)))
    /\ pending' = RemainingAfter(pending)
    /\ rpc' = IF RemainingAfter(pending) = <<>> THEN "model" ELSE "tools"
    /\ UNCHANGED <<faults, rin, db, base, rounds, issued, requested, failed,
                   output, rout>>
    /\ UNCHANGED notRunVars

\* a handler around agent.run that starts the model request again
OnAgentError_retry == "model"

\* where run() goes when agent.run raises: nothing catches it
OnAgentError == "raised"

\* complete() fails in some round: agent.run raises
ModelFails ==
    /\ rpc = "model"
    /\ rounds' = rounds + 1
    /\ failed' = TRUE
    /\ rpc' = OnAgentError
    /\ UNCHANGED <<faults, rin, db, messages, base, issued, pending, requested,
                   executed, output, rout>>
    /\ UNCHANGED notRunVars

\* a slice that loses the last message
RunResult_drops_last(reply, msgs) ==
    [done |-> TRUE, reply |-> reply, messages |-> SubSeq(msgs, 1, Len(msgs) - 1)]

\* return result.output, messages
RunResult(reply, msgs) ==
    [done |-> TRUE, reply |-> reply, messages |-> msgs]

\* after agent.run: the last MAX_HISTORY messages are saved for a known
\* user (a failed save is only logged), and run() returns
RunFinish ==
    /\ rpc = "persist"
    /\ \E save_ok \in BOOLEAN :
         /\ db' = IF rin.user_id # "" /\ save_ok
                  THEN save_conversation(get_or_create_user(db, rin.user_id),
                                         rin.user_id, Channel,
                                         DumpPython(LastN(messages, MAX_HISTORY)))
                  ELSE db
         /\ faults' = [faults EXCEPT !.save = rin.user_id # "" /\ ~save_ok]
    /\ rout' = RunResult(output, messages)
    /\ rpc' = "returned"
    /\ UNCHANGED <<rin, messages, base, rounds, issued, pending, requested,
                   executed, failed, output>>
    /\ UNCHANGED notRunVars

(***************************************************************************)
(* LLM adapters: message conversion (llm/anthropic_.py, llm/google_.py,    *)
(* llm/bedrock_.py)                                                        *)
(***************************************************************************)
\* ---- messages in the canonical (OpenAI) wire shape, as Python dicts
Absent == "<absent>"            \* a key the dict does not have (ids, names)
AbsentText == <<"<absent>">>    \* a text key the dict does not have

\* one entry of an assistant message's tool_calls
Call(id, name, arguments) == [id |-> id, name |-> name, arguments |-> arguments]

WireMsg(role, content, tool_calls, tool_call_id) ==
    [role |-> role, content |-> content, tool_calls |-> tool_calls,
     tool_call_id |-> tool_call_id]

\* msg.get("content", default)
GetContent(msg, default) ==
    IF msg.content = AbsentText THEN default ELSE msg.content

\* msg.get("tool_call_id", default)
GetToolCallId(msg, default) ==
    IF msg.tool_call_id = Absent THEN default ELSE msg.tool_call_id

\* json.loads on a string: the texts that are JSON documents
JsonTexts == {<<"{", "}">>}
JsonLoadsOk(s) == s \in JsonTexts

RECURSIVE Join(_, _)
\* sep.join(parts)
Join(sep, parts) ==
    IF Len(parts) = 0 THEN <<>>
    ELSE IF Len(parts) = 1 THEN parts[1]
    ELSE parts[1] \o sep \o Join(sep, Tail(parts))

\* a single line break as separator
BlankLine_newline == <<"\n">>

\* the separator of "\n\n".join
BlankLine == <<"\n", "\n">>

\* ---- what a conversion gives back
ConvReturns(system, msgs) ==
    [raised |-> FALSE, exc |-> "", system |-> system, msgs |-> msgs]
ConvRaises(exc) ==
    [raised |-> TRUE, exc |-> exc, system |-> <<>>, msgs |-> <<>>]

\* a content block / part of a converted message
Block(type, text, id, name, payload) ==
    [type |-> type, text |-> text, id |-> id, name |-> name,
     payload |-> payload]
TextBlock(text) == Block("text", text, "", "", "none")

\* a converted message: content is a plain string or a list of blocks
Turn(role, text, blocks) == [role |-> role, text |-> text, blocks |-> blocks]

RECURSIVE ToolUseBlocks(_, _, _)
\* the loop over msg.get("tool_calls", []), shared by the three conversions:
\* json.loads(arguments) raises on malformed arguments
ToolUseBlocks(type, calls, acc) ==
    IF Len(calls) = 0 THEN [raised |-> FALSE, blocks |-> acc]
    ELSE IF ~JsonLoadsOk(calls[1].arguments)
    THEN [raised |-> TRUE, blocks |-> <<>>]
    ELSE ToolUseBlocks(type, Tail(calls),
            Append(acc, Block(type, <<>>, calls[1].id, calls[1].name,
                              "decoded")))

\* the text block of an assistant message: `if msg.get("content")`
AssistantText(msg) ==
    IF GetContent(msg, <<>>) # <<>> THEN <<TextBlock(msg.content)>> ELSE <<>>

(* ------------------------- anthropic_._convert_messages ---------------- *)
\* a run loop that emits one user message per tool message
AnthropicToolRun_single(msgs, i, acc) ==
    IF msgs[i].tool_call_id = Absent
    THEN [raised |-> TRUE, next |-> i, blocks |-> <<>>]
    ELSE [raised |-> FALSE, next |-> i + 1,
          blocks |-> <<Block("tool_result", GetContent(msgs[i], <<>>),
                             msgs[i].tool_call_id, "", "none")>>]

RECURSIVE AnthropicToolRun(_, _, _)
\* the inner while loop: collect the tool messages from position i on
AnthropicToolRun(msgs, i, acc) ==
    IF i <= Len(msgs) /\ msgs[i].role = "tool"
    THEN IF msgs[i].tool_call_id = Absent
         THEN [raised |-> TRUE, next |-> i, blocks |-> <<>>]
         ELSE AnthropicToolRun(msgs, i + 1,
                Append(acc, Block("tool_result", GetContent(msgs[i], <<>>),
                                  msgs[i].tool_call_id, "", "none")))
    ELSE [raised |-> FALSE, next |-> i, blocks |-> acc]

RECURSIVE AnthropicLoop(_, _, _, _)
AnthropicLoop(msgs, i, system_parts, anthropic_msgs) ==
    IF i > Len(msgs)
    THEN ConvReturns(Join(BlankLine, system_parts), anthropic_msgs)
    ELSE LET msg == msgs[i] IN
      CASE msg.role = "system" ->
             AnthropicLoop(msgs, i + 1,
                 Append(system_parts, GetContent(msg, <<>>)), anthropic_msgs)
        [] msg.role = "user" ->
             IF msg.content = AbsentText THEN ConvRaises("KeyError")
             ELSE AnthropicLoop(msgs, i + 1, system_parts,
                    Append(anthropic_msgs, Turn("user", msg.content, <<>>)))
        [] msg.role = "assistant" ->
             LET b == ToolUseBlocks("tool_use", msg.tool_calls,
                                    AssistantText(msg)) IN
             IF b.raised THEN ConvRaises("JSONDecodeError")
             ELSE AnthropicLoop(msgs, i + 1, system_parts,
                    Append(anthropic_msgs, Turn("assistant", <<>>, b.blocks)))
        [] msg.role = "tool" ->
             LET r == AnthropicToolRun(msgs, i, <<>>) IN
             IF r.raised THEN ConvRaises("KeyError")
             ELSE AnthropicLoop(msgs, r.next, system_parts,
                    Append(anthropic_msgs, Turn("user", <<>>, r.blocks)))
        [] OTHER -> AnthropicLoop(msgs, i + 1, system_parts, anthropic_msgs)

anthropic_convert_messages(msgs) == AnthropicLoop(msgs, 1, <<>>, <<>>)

(* ------------------------- google_._convert_messages ------------------- *)
\* a lookup whose fallback is the empty name
FnNameOf_empty(fn_names, id) ==
    IF id \in DOMAIN fn_names THEN fn_names[id] ELSE ""

\* fn_names.get(id, "unknown")
FnNameOf(fn_names, id) ==
    IF id \in DOMAIN fn_names THEN fn_names[id] ELSE "unknown"

RECURSIVE Remember(_, _)
\* fn_names[tc["id"]] = fn["name"] for each call, in order
Remember(fn_names, calls) ==
    IF Len(calls) = 0 THEN fn_names
    ELSE Remember([k \in DOMAIN fn_names \cup {calls[1].id} |->
                      IF k = calls[1].id THEN calls[1].name ELSE fn_names[k]],
                  Tail(calls))

\* a decoder that wraps every content
ToolOutput_always_wrapped(content_str) == "wrapped"

\* json.loads(content_str) with the fallback {"result": content_str}
ToolOutput(content_str) ==
    IF JsonLoadsOk(content_str) THEN "decoded" ELSE "wrapped"

RECURSIVE GeminiLoop(_, _, _, _, _)
GeminiLoop(msgs, i, system_parts, contents, fn_names) ==
    IF i > Len(msgs)
    THEN ConvReturns(Join(BlankLine, system_parts), contents)
    ELSE LET msg == msgs[i] IN
      CASE msg.role = "system" ->
             GeminiLoop(msgs, i + 1,
                 Append(system_parts, GetContent(msg, <<>>)), contents,
                 fn_names)
        [] msg.role = "user" ->
             GeminiLoop(msgs, i + 1, system_parts,
                 Append(contents,
                        Turn("user", <<>>,
                             <<TextBlock(GetContent(msg, <<>>))>>)),
                 fn_names)
        [] msg.role = "assistant" ->
             LET b == ToolUseBlocks("function_call", msg.tool_calls,
                                    AssistantText(msg)) IN
             IF b.raised THEN ConvRaises("JSONDecodeError")
             ELSE GeminiLoop(msgs, i + 1, system_parts,
                    Append(contents, Turn("model", <<>>, b.blocks)),
                    Remember(fn_names, msg.tool_calls))
        [] msg.role = "tool" ->
             LET fn_name == FnNameOf(fn_names, GetToolCallId(msg, ""))
                 content_str == GetContent(msg, <<"{", "}">>)
             IN GeminiLoop(msgs, i + 1, system_parts,
                    Append(contents,
                           Turn("user", <<>>,
                                <<Block("function_response", content_str, "",
                                        fn_name, ToolOutput(content_str))>>)),
                    fn_names)
        [] OTHER -> GeminiLoop(msgs, i + 1, system_parts, contents, fn_names)

NoNames == [k \in {} |-> ""]
gemini_convert_messages(msgs) == GeminiLoop(msgs, 1, <<>>, <<>>, NoNames)

(* ------------------------- bedrock_._convert_messages ------------------ *)
RECURSIVE BedrockLoop(_, _, _, _)
BedrockLoop(msgs, i, system_blocks, converse_msgs) ==
    IF i > Len(msgs)
    THEN ConvReturns(system_blocks, converse_msgs)
    ELSE LET msg == msgs[i] IN
      CASE msg.role = "system" ->
             BedrockLoop(msgs, i + 1,
                 Append(system_blocks, TextBlock(GetContent(msg, <<>>))),
                 converse_msgs)
        [] msg.role = "user" ->
             BedrockLoop(msgs, i + 1, system_blocks,
                 Append(converse_msgs,
                        Turn("user", <<>>,
                             <<TextBlock(GetContent(msg, <<>>))>>)))
        [] msg.role = "assistant" ->
             LET b == ToolUseBlocks("toolUse", msg.tool_calls,
                                    AssistantText(msg)) IN
             IF b.raised THEN ConvRaises("JSONDecodeError")
             ELSE BedrockLoop(msgs, i + 1, system_blocks,
                    Append(converse_msgs, Turn("assistant", <<>>, b.blocks)))
        [] msg.role = "tool" ->
             LET content_str == GetContent(msg, <<"{", "}">>) IN
             BedrockLoop(msgs, i + 1, system_blocks,
                 Append(converse_msgs,
                        Turn("user", <<>>,
                             <<Block("toolResult", content_str,
                                     GetToolCallId(msg, ""), "",
                                     ToolOutput(content_str))>>)))
        [] OTHER -> BedrockLoop(msgs, i + 1, system_blocks, converse_msgs)

bedrock_convert_messages(msgs) == BedrockLoop(msgs, 1, <<>>, <<>>)

\* ---- bounded message lists
MaxMsgs == 3
TxtA == <<"a">>
TxtB == <<"b">>
TxtJson == <<"{", "}">>
ArgsOk == <<"{", "}">>
ArgsBad == <<"{">>
WireMessages ==
    { WireMsg("system", TxtA, <<>>, Absent),
      WireMsg("system", TxtB, <<>>, Absent),
      WireMsg("user", TxtA, <<>>, Absent),
      WireMsg("user", AbsentText, <<>>, Absent),
      WireMsg("assistant", TxtA, <<Call("c1", "get_quote", ArgsOk)>>, Absent),
      WireMsg("assistant", AbsentText,
              <<Call("c1", "search_news", ArgsOk),
                Call("c2", "get_quote", ArgsOk)>>, Absent),
      WireMsg("assistant", TxtB, <<Call("c2", "get_quote", ArgsBad)>>, Absent),
      WireMsg("tool", TxtJson, <<>>, "c1"),
      WireMsg("tool", TxtB, <<>>, "c2"),
      WireMsg("tool", TxtA, <<>>, Absent),
      WireMsg("function", TxtA, <<>>, Absent) }
MessageLists == UNION {[1..k -> WireMessages] : k \in 0..MaxMsgs}

NotConverted == [done |-> FALSE, adapter |-> "", r |-> ConvRaises("")]
ConvIdle == cin = <<>> /\ cout = NotConverted
ConvInit == cin \in MessageLists /\ cout = NotConverted

Converted(adapter, r) == [done |-> TRUE, adapter |-> adapter, r |-> r]

AnthropicConvert ==
    /\ ~cout.done
    /\ cout' = Converted("anthropic", anthropic_convert_messages(cin))
    /\ UNCHANGED cin
    /\ UNCHANGED notConvVars

GeminiConvert ==
    /\ ~cout.done
    /\ cout' = Converted("gemini", gemini_convert_messages(cin))
    /\ UNCHANGED cin
    /\ UNCHANGED notConvVars

BedrockConvert ==
    /\ ~cout.done
    /\ cout' = Converted("bedrock", bedrock_convert_messages(cin))
    /\ UNCHANGED cin
    /\ UNCHANGED notConvVars

(***************************************************************************)
(* google_._strip_defaults on JSON schemas                                 *)
(***************************************************************************)
\* a JSON value: a dict (keys[i] maps to items[i], in insertion order), a
\* list of items, or a scalar
Node(t, keys, items, val) ==
    [t |-> t, keys |-> keys, items |-> items, val |-> val]
JDict(keys, items) == Node("dict", keys, items, "")
JList(items) == Node("list", <<>>, items, "")
JScalar(val) == Node("scalar", <<>>, <<>>, val)

RECURSIVE KeptKeys(_, _)
\* positions of the keys the loop does not skip (`if k == "default": continue`)
KeptKeys(keys, i) ==
    IF i > Len(keys) THEN <<>>
    ELSE IF keys[i] = "default" THEN KeptKeys(keys, i + 1)
    ELSE <<i>> \o KeptKeys(keys, i + 1)

\* a list comprehension that keeps only the dict items of a list
StripListItems_dicts_only(items) ==
    LET IsDictItem(v) == v.t = "dict" IN SelectSeq(items, IsDictItem)

RECURSIVE strip_defaults(_)
\* [_strip_defaults(item) if isinstance(item, dict) else item for item in v]
StripListItems(items) ==
    [j \in 1..Len(items) |->
        IF items[j].t = "dict" THEN strip_defaults(items[j]) ELSE items[j]]

\* the three branches on the type of a value
StripValue(v) ==
    IF v.t = "dict" THEN strip_defaults(v)
    ELSE IF v.t = "list" THEN JList(StripListItems(v.items))
    ELSE v

strip_defaults(schema) ==
    LET kept == KeptKeys(schema.keys, 1) IN
    JDict([n \in 1..Len(kept) |-> schema.keys[kept[n]]],
          [n \in 1..Len(kept) |-> StripValue(schema.items[kept[n]])])

\* ---- bounded schemas
MaxDepth == 4
SchemaKeys == {"default", "type"}
Leaf == JScalar("x")
RECURSIVE JsonValues(_)
\* values nested up to d deep; two-entry dicts and lists hold shallow values
JsonValues(d) ==
    IF d = 0 THEN {Leaf}
    ELSE LET below == JsonValues(d - 1)
             shallow == JsonValues(1)
         IN below
            \cup {JDict(<<k>>, <<v>>) : k \in SchemaKeys, v \in below}
            \cup {JList(<<v>>) : v \in below}
            \cup (IF d < 2 THEN {}
                  ELSE {JDict(<<"default", "type">>, <<v, w>>) :
                            v \in shallow, w \in shallow}
                       \cup {JDict(<<"type", "default">>, <<v, w>>) :
                            v \in shallow, w \in shallow}
                       \cup {JList(<<v, w>>) : v \in shallow, w \in shallow})
Schemas == {v \in JsonValues(MaxDepth) : v.t = "dict"}

NotStripped == [once |-> FALSE, twice |-> FALSE, first |-> Leaf, second |-> Leaf]
StripIdle == sin = Leaf /\ sout = NotStripped
StripInit == sin \in Schemas /\ sout = NotStripped

\* _strip_defaults(schema)
StripDefaults ==
    /\ ~sout.once
    /\ sout' = [sout EXCEPT !.once = TRUE, !.first = strip_defaults(sin)]
    /\ UNCHANGED sin
    /\ UNCHANGED notStripVars

\* _strip_defaults applied to its own result
StripAgain ==
    /\ sout.once /\ ~sout.twice
    /\ sout' = [sout EXCEPT !.twice = TRUE,
                            !.second = strip_defaults(sout.first)]
    /\ UNCHANGED sin
    /\ UNCHANGED notStripVars
(***************************************************************************)
(* complete() of the six adapters                                          *)
(***************************************************************************)
\* `needle in s`
Substring(needle, s) ==
    \E i \in 1..(Len(s) - Len(needle) + 1) :
        SubSeq(s, i, i + Len(needle) - 1) = needle

W_rate == <<"r", "a", "t", "e">>
W_overloaded == <<"o", "v", "e", "r", "l", "o", "a", "d", "e", "d">>
W_quota == <<"q", "u", "o", "t", "a">>
W_throttl == <<"t", "h", "r", "o", "t", "t", "l">>

\* ---- what the vendor SDK does when it is called
\* an exception of the SDK; text is str(exc)
VendorExc(type, text, timed_out) ==
    [type |-> type, text |-> text, timed_out |-> timed_out]
NoExc == VendorExc("", <<>>, FALSE)
VendorExceptions ==
    { VendorExc("APITimeoutError", <<"R", "e", "q", "u", "e", "s", "t", " ", "t", "i", "m", "e", "d", " ", "o", "u", "t", ".">>, TRUE),
      VendorExc("ReadTimeoutError", <<"R", "e", "a", "d", " ", "t", "i", "m", "e", "o", "u", "t", " ", "o", "n", " ", "e", "n", "d", "p", "o", "i", "n", "t", " ", "U", "R", "L">>, TRUE),
      VendorExc("RateLimitError", <<"R", "a", "t", "e", " ", "l", "i", "m", "i", "t", " ", "r", "e", "a", "c", "h", "e", "d">>, FALSE),
      VendorExc("OverloadedError", <<"O", "v", "e", "r", "l", "o", "a", "d", "e", "d">>, FALSE),
      VendorExc("ThrottlingException", <<"T", "h", "r", "o", "t", "t", "l", "i", "n", "g", "E", "x", "c", "e", "p", "t", "i", "o", "n">>, FALSE),
      VendorExc("ResourceExhausted", <<"Q", "u", "o", "t", "a", " ", "e", "x", "c", "e", "e", "d", "e", "d">>, FALSE),
      VendorExc("APIConnectionError", <<"C", "o", "n", "n", "e", "c", "t", "i", "o", "n", " ", "e", "r", "r", "o", "r", ".">>, FALSE) }

\* a tool call of a vendor response
VendorCall(id, name) == [id |-> id, name |-> name]
MaxToolUses == 2
VendorCallPool ==
    <<VendorCall("c1", "get_quote"), VendorCall("c2", "search_news"),
      VendorCall("c3", "get_quote"), VendorCall("c4", "get_history")>>
VendorCallLists == {SubSeq(VendorCallPool, 1, k) : k \in 0..MaxToolUses}

\* why the vendor says it stopped, in each vendor's own vocabulary
StopKinds == {"end", "tools", "length", "other", "none"}
VendorStopReason(vendor, kind) ==
    CASE vendor = "openai" ->
           (CASE kind = "end" -> "stop" [] kind = "tools" -> "tool_calls"
              [] kind = "length" -> "length"
              [] kind = "other" -> "content_filter" [] OTHER -> Absent)
      [] vendor = "gemini" ->
           (CASE kind = "length" -> "MAX_TOKENS" [] kind = "other" -> "SAFETY"
              [] kind = "none" -> Absent [] OTHER -> "STOP")
      [] OTHER ->
           (CASE kind = "end" -> "end_turn" [] kind = "tools" -> "tool_use"
              [] kind = "length" -> "max_tokens"
              [] kind = "other" -> "stop_sequence" [] OTHER -> Absent)

\* the behaviour of one vendor call: an exception, or a response
Vendor(exc, empty, text, calls, kind) ==
    [raises |-> exc # NoExc, exc |-> exc, empty |-> empty, text |-> text,
     calls |-> calls, kind |-> kind]
VendorBehaviours ==
    {Vendor(x, TRUE, <<>>, <<>>, "none") : x \in VendorExceptions}
    \cup {Vendor(NoExc, TRUE, <<>>, <<>>, "none")}
    \cup {Vendor(NoExc, FALSE, t, c, k) :
            t \in {<<>>, <<"h", "i">>}, c \in VendorCallLists, k \in StopKinds}

\* ---- what complete() gives back
Outcome(kind, exc, provider, retryable, content, tool_calls, finish_reason) ==
    [done |-> TRUE, kind |-> kind, exc |-> exc, provider |-> provider,
     retryable |-> retryable, content |-> content, tool_calls |-> tool_calls,
     finish_reason |-> finish_reason]
LLMResult(content, tool_calls, finish_reason) ==
    Outcome("result", "", "", FALSE, content, tool_calls, finish_reason)
LLMError(provider, retryable) ==
    Outcome("LLMError", "LLMError", provider, retryable, <<>>, <<>>, "")
Escapes(exc) == Outcome("exception", exc, "", FALSE, <<>>, <<>>, "")

\* ToolCall(id=..., name=..., arguments=...) for each call of the response
ToolCalls(calls) ==
    [k \in 1..Len(calls) |-> [id |-> calls[k].id, name |-> calls[k].name]]
\* Gemini responses carry no ids: id=uuid.uuid4().hex[:24]
GeminiToolCalls(calls) ==
    [k \in 1..Len(calls) |-> [id |-> "uuid", name |-> calls[k].name]]

\* `choice.finish_reason or "stop"`
FinishReasonOrStop(reason) == IF reason = Absent THEN "stop" ELSE reason

\* a mapping that lets every other stop reason through
AnthropicFinishReason_passthrough(stop_reason) ==
    IF stop_reason = "tool_use" THEN "tool_calls"
    ELSE IF stop_reason = "max_tokens" THEN "length"
    ELSE stop_reason

\* anthropic_._parse_response: stop reason to finish reason
AnthropicFinishReason(stop_reason) ==
    IF stop_reason = "tool_use" THEN "tool_calls"
    ELSE IF stop_reason = "max_tokens" THEN "length"
    ELSE "stop"

\* bedrock_._parse_response: response.get("stopReason", "end_turn")
BedrockFinishReason(stop_reason) ==
    LET r == IF stop_reason = Absent THEN "end_turn" ELSE stop_reason IN
    IF r = "tool_use" THEN "tool_calls"
    ELSE IF r = "max_tokens" THEN "length"
    ELSE "stop"

\* google_._parse_response: decided by the decoded tool calls
GeminiFinishReason(tool_calls, has_candidates, fr) ==
    IF tool_calls # <<>> THEN "tool_calls"
    ELSE IF has_candidates /\ fr # Absent /\ fr = "MAX_TOKENS" THEN "length"
    ELSE "stop"

\* ---- the caller's arguments, as the call leaves them
\* a tool of the caller's tools list: its name and its parameter schema
Tool(name, parameters) == [name |-> name, parameters |-> parameters]

\* a strip that deletes the keys from the schema it was given
SchemaAfterStrip_in_place(schema) == strip_defaults(schema)

\* _strip_defaults writes into `result = {}`, never into its argument
SchemaAfterStrip(schema) == schema

\* the tools list after _convert_tools of the Gemini adapter
ToolsAfterGemini(tools) ==
    [k \in 1..Len(tools) |->
        Tool(tools[k].name, SchemaAfterStrip(tools[k].parameters))]

\* _convert_messages appends to its own lists, never to its argument
MessagesAfterConvert(msgs) == msgs

\* ---- bounded calls
CompleteMessageLists ==
    { <<WireMsg("system", TxtA, <<>>, Absent), WireMsg("user", TxtA, <<>>, Absent)>>,
      <<WireMsg("user", TxtA, <<>>, Absent),
        WireMsg("assistant", AbsentText, <<Call("c1", "get_quote", ArgsOk)>>, Absent),
        WireMsg("tool", TxtJson, <<>>, "c1")>>,
      <<WireMsg("user", AbsentText, <<>>, Absent)>>,
      <<WireMsg("user", TxtA, <<>>, Absent),
        WireMsg("assistant", TxtB, <<Call("c2", "get_quote", ArgsBad)>>, Absent)>> }
CompleteToolLists ==
    { <<>>,
      <<Tool("get_history",
             JDict(<<"type", "default">>, <<Leaf, Leaf>>))>> }

NotCompleted ==
    [done |-> FALSE, kind |-> "", exc |-> "", provider |-> "",
     retryable |-> FALSE, content |-> <<>>, tool_calls |-> <<>>,
     finish_reason |-> ""]
NoCall == [adapter |-> "", vendor |-> Vendor(NoExc, TRUE, <<>>, <<>>, "none"),
           messages |-> <<>>, tools |-> <<>>]
CompIdle ==
    /\ call = NoCall /\ callerMessages = <<>> /\ callerTools = <<>>
    /\ cres = NotCompleted
CompInit ==
    /\ callerMessages \in CompleteMessageLists
    /\ callerTools \in CompleteToolLists
    /\ \E v \in VendorBehaviours :
         call = [adapter |-> "", vendor |-> v, messages |-> callerMessages,
                 tools |-> callerTools]
    /\ cres = NotCompleted

\* the decoding shared by the OpenAI-shaped adapters
OpenAIShapedResult(v) ==
    LLMResult(v.text, ToolCalls(v.calls),
              FinishReasonOrStop(VendorStopReason("openai", v.kind)))

\* openai_.OpenAIProvider.complete
OpenAIComplete(prefix) ==
    /\ ~cres.done
    /\ LET v == call.vendor IN
       cres' = IF v.raises
               THEN LLMError(prefix, Substring(W_rate, Lower(v.exc.text)))
               ELSE IF v.empty THEN Escapes("IndexError")
               ELSE OpenAIShapedResult(v)
    /\ call' = [call EXCEPT !.adapter = prefix]
    /\ UNCHANGED <<callerMessages, callerTools>>
    /\ UNCHANGED notCompVars

\* litellm_.LiteLLMProvider.complete
LiteLLMComplete ==
    /\ ~cres.done
    /\ LET v == call.vendor IN
       cres' = IF v.raises
               THEN LLMError("litellm", Substring(W_rate, Lower(v.exc.text)))
               ELSE IF v.empty THEN Escapes("IndexError")
               ELSE OpenAIShapedResult(v)
    /\ call' = [call EXCEPT !.adapter = "litellm"]
    /\ UNCHANGED <<callerMessages, callerTools>>
    /\ UNCHANGED notCompVars

\* mistral_.MistralProvider.complete
MistralComplete ==
    /\ ~cres.done
    /\ LET v == call.vendor IN
       cres' = IF v.raises
               THEN LLMError("mistral", Substring(W_rate, Lower(v.exc.text)))
               ELSE IF v.empty THEN LLMError("mistral", FALSE)
               ELSE OpenAIShapedResult(v)
    /\ call' = [call EXCEPT !.adapter = "mistral"]
    /\ UNCHANGED <<callerMessages, callerTools>>
    /\ UNCHANGED notCompVars

\* the text blocks of a response joined with "\n": at most one here
ResponseText(v) == IF v.empty THEN <<>> ELSE v.text
ResponseCalls(v) == IF v.empty THEN <<>> ELSE v.calls

\* anthropic_.AnthropicProvider.complete
AnthropicComplete ==
    /\ ~cres.done
    /\ LET v == call.vendor
           conv == anthropic_convert_messages(callerMessages)
       IN
       /\ cres' = IF conv.raised THEN Escapes(conv.exc)
                  ELSE IF v.raises
                  THEN LLMError("anthropic",
                          Substring(W_rate, Lower(v.exc.text))
                          \/ Substring(W_overloaded, Lower(v.exc.text)))
                  ELSE LLMResult(ResponseText(v), ToolCalls(ResponseCalls(v)),
                          AnthropicFinishReason(
                              VendorStopReason("anthropic", v.kind)))
       /\ callerMessages' = MessagesAfterConvert(callerMessages)
    /\ call' = [call EXCEPT !.adapter = "anthropic"]
    /\ UNCHANGED callerTools
    /\ UNCHANGED notCompVars

\* google_.GeminiProvider.complete
GeminiComplete ==
    /\ ~cres.done
    /\ LET v == call.vendor
           conv == gemini_convert_messages(callerMessages)
           tool_calls == GeminiToolCalls(ResponseCalls(v))
       IN
       /\ cres' = IF conv.raised THEN Escapes(conv.exc)
                  ELSE IF v.raises
                  THEN LLMError("gemini",
                          Substring(W_quota, Lower(v.exc.text))
                          \/ Substring(W_rate, Lower(v.exc.text)))
                  ELSE LLMResult(ResponseText(v), tool_calls,
                          GeminiFinishReason(tool_calls, ~v.empty,
                              VendorStopReason("gemini", v.kind)))
       /\ callerMessages' = MessagesAfterConvert(callerMessages)
       /\ callerTools' = IF conv.raised THEN callerTools
                         ELSE ToolsAfterGemini(callerTools)
    /\ call' = [call EXCEPT !.adapter = "gemini"]
    /\ UNCHANGED notCompVars

\* bedrock_.BedrockProvider.complete
BedrockComplete ==
    /\ ~cres.done
    /\ LET v == call.vendor
           conv == bedrock_convert_messages(callerMessages)
       IN
       /\ cres' = IF conv.raised THEN Escapes(conv.exc)
                  ELSE IF v.raises
                  THEN LLMError("bedrock",
                          Substring(W_throttl, Lower(v.exc.text)))
                  ELSE LLMResult(ResponseText(v), ToolCalls(ResponseCalls(v)),
                          BedrockFinishReason(
                              VendorStopReason("bedrock", v.kind)))
       /\ callerMessages' = MessagesAfterConvert(callerMessages)
    /\ call' = [call EXCEPT !.adapter = "bedrock"]
    /\ UNCHANGED callerTools
    /\ UNCHANGED notCompVars

LlmIdle == ConvIdle /\ StripIdle /\ CompIdle

(***************************************************************************)
(* Settings.pydantic_ai_model (config.py)                                  *)
(***************************************************************************)
\* the model string in PydanticAI style
pydantic_ai_model(m) ==
    IF Contains(m, "/") /\ ~Contains(m, ":")
    THEN LET p == Partition(m, "/") IN p[1] \o <<":">> \o p[3]
    ELSE m

NotConfigured == [done |-> FALSE, value |-> <<>>]
PydIdle == pyd = NotConfigured
PydInit == pyd = NotConfigured

\* the property read on settings whose model is the string pin
PydanticAiModel ==
    /\ ~pyd.done
    /\ pyd' = [done |-> TRUE, value |-> pydantic_ai_model(pin)]
    /\ UNCHANGED notPydVars
(***************************************************************************)
(* Concurrent run() invocations on one database (agent/loop.py,            *)
(* storage/repo.py): every await on the session is a step of its own       *)
(***************************************************************************)
NumSessions == 2
Sessions == 1..NumSessions
TheUser == "u1"

\* a row of the conversations table; writer is the invocation that wrote it
ConvRow(user_id, channel, writer) ==
    [user_id |-> user_id, channel |-> channel, writer |-> writer]

PgEmpty == [users |-> {}, convs |-> <<>>, later |-> ""]
PgUser == [users |-> {TheUser}, convs |-> <<>>, later |-> ""]
PgConversation ==
    [users |-> {TheUser}, convs |-> <<ConvRow(TheUser, Channel, 0)>>,
     later |-> ""]

\* result.scalar_one_or_none() over the rows a select matched
ScalarOneOrNone(found) ==
    IF found = {} THEN "none"
    ELSE IF Cardinality(found) = 1 THEN "one"
    ELSE "MultipleResultsFound"

SessionAt(pc_, given, found, broken) ==
    [pc |-> pc_, given |-> given, found |-> found, broken |-> broken]

StoreIdle ==
    /\ pg = PgEmpty
    /\ sess = [t \in Sessions |-> SessionAt("done", TRUE, 0, FALSE)]
StoreInit ==
    /\ pg \in {PgEmpty, PgUser, PgConversation}
    /\ sess \in [Sessions -> {SessionAt("start", g, 0, FALSE) : g \in BOOLEAN}]

\* run(): `if history is None and user_id` decides whether history is loaded
RunBegins(t) ==
    /\ sess[t].pc = "start"
    /\ sess' = [sess EXCEPT ![t].pc =
                   IF sess[t].given THEN "agent" ELSE "load_user"]
    /\ UNCHANGED pg
    /\ UNCHANGED notStoreVars

\* where run() goes after a database exception: both try blocks catch it
AfterDbError(pc_) == IF pc_ \in {"load_user", "load_insert", "load_conv"}
                     THEN "agent" ELSE "done"

\* get_or_create_user: the select; a session whose transaction failed earlier
\* may refuse the statement
SelectUser(t) ==
    /\ sess[t].pc \in {"load_user", "save_user"}
    /\ \/ sess' = [sess EXCEPT ![t].pc =
                     IF TheUser \in pg.users
                     THEN (IF sess[t].pc = "load_user" THEN "load_conv"
                           ELSE "save_conv")
                     ELSE (IF sess[t].pc = "load_user" THEN "load_insert"
                           ELSE "save_insert")]
       \/ /\ sess[t].broken
          /\ sess' = [sess EXCEPT ![t].pc = AfterDbError(sess[t].pc)]
    /\ UNCHANGED pg
    /\ UNCHANGED notStoreVars

\* get_or_create_user: session.add(user); commit. channel_user_id is unique,
\* so the commit fails when another session has inserted the user meanwhile
InsertUser(t) ==
    /\ sess[t].pc \in {"load_insert", "save_insert"}
    /\ IF TheUser \in pg.users
       THEN /\ sess' = [sess EXCEPT ![t].pc = AfterDbError(sess[t].pc),
                                    ![t].broken = TRUE]
            /\ UNCHANGED pg
       ELSE /\ pg' = [pg EXCEPT !.users = @ \cup {TheUser}]
            /\ sess' = [sess EXCEPT ![t].pc =
                          IF sess[t].pc = "load_insert" THEN "load_conv"
                          ELSE "save_conv"]
    /\ UNCHANGED notStoreVars

\* run(): repo.get_conversation while loading the history
LoadConversation(t) ==
    /\ sess[t].pc = "load_conv"
    /\ sess' = [sess EXCEPT ![t].pc = "agent"]
    /\ UNCHANGED pg
    /\ UNCHANGED notStoreVars

\* run(): await agent.run(...)
AgentRuns(t) ==
    /\ sess[t].pc = "agent"
    /\ sess' = [sess EXCEPT ![t].pc = "save_user"]
    /\ UNCHANGED pg
    /\ UNCHANGED notStoreVars

\* save_conversation: conv = await self.get_conversation(user_id, channel)
SaveSelectConversation(t) ==
    /\ sess[t].pc = "save_conv"
    /\ LET found == ConvRows(pg, TheUser, Channel)
           r == ScalarOneOrNone(found)
       IN sess' = [sess EXCEPT
                     ![t].pc = IF r = "MultipleResultsFound"
                               THEN AfterDbError("save_conv")
                               ELSE "save_commit",
                     ![t].found = IF r = "one"
                                  THEN CHOOSE i \in found : TRUE ELSE 0]
    /\ UNCHANGED pg
    /\ UNCHANGED notStoreVars

\* save_conversation: add a row when none was found, else update the row
\* found; commit
SaveCommit(t) ==
    /\ sess[t].pc = "save_commit"
    /\ pg' = IF sess[t].found = 0
             THEN [pg EXCEPT !.convs = Append(@, ConvRow(TheUser, Channel, t))]
             ELSE [pg EXCEPT !.convs[sess[t].found].writer = t]
    /\ sess' = [sess EXCEPT ![t].pc = "done"]
    /\ UNCHANGED notStoreVars

AllSessionsDone == \A t \in Sessions : sess[t].pc = "done"

\* a get_conversation for the pair once every invocation has returned
LaterGetConversation ==
    /\ AllSessionsDone
    /\ pg.later = ""
    /\ pg' = [pg EXCEPT !.later =
                 ScalarOneOrNone(ConvRows(pg, TheUser, Channel))]
    /\ UNCHANGED sess
    /\ UNCHANGED notStoreVars
(***************************************************************************)
(* Telegram and Slack handlers (channels/telegram.py _handle_message,      *)
(* channels/slack_.py SlackChannel._handle): the same three statements     *)
(* around `await agent.run(...)`, on a module-level _histories dict        *)
(***************************************************************************)
NumHandlers == 2
Handlers == 1..NumHandlers
ChatUsers == {"u1", "u2"}
\* how many messages one run adds to the history it was given: the user
\* message and the final answer, and the tool rounds in between
RunGrowth == {2, 26}

\* the literal of history[-40:]
HISTORY_KEEP == 40

\* a slice that keeps everything
KeepLast_all(history) == history

\* history[-40:]
KeepLast(history) == LastN(history, HISTORY_KEEP)

\* the history a run's messages extend: the list the handler read from
\* _histories before the await
HistoryForRun(local, stored) == local

NoHandler == [pc |-> "idle", user |-> "", history |-> <<>>, exchange |-> <<>>]
NoSave == [saved |-> FALSE, msgs |-> <<>>, rows |-> <<>>]
ChanEmpty ==
    [histories |-> [u \in ChatUsers |-> <<>>],
     last |-> [u \in ChatUsers |-> <<>>],
     saved |-> [u \in ChatUsers |-> NoSave],
     next |-> 1]
ChanIdle ==
    /\ chan = ChanEmpty
    /\ handlers = [h \in Handlers |-> [NoHandler EXCEPT !.pc = "done"]]
ChanInit ==
    /\ chan = ChanEmpty
    /\ handlers = [h \in Handlers |-> NoHandler]

\* handlers are numbered in the order their messages arrive
MayStart(h) ==
    /\ handlers[h].pc = "idle"
    /\ \A g \in Handlers : g < h => handlers[g].pc # "idle"

\* a message without text: the handler returns at once
HandleEmpty(h, u) ==
    /\ MayStart(h)
    /\ handlers' = [handlers EXCEPT ![h] = [NoHandler EXCEPT !.pc = "done",
                                                            !.user = u]]
    /\ UNCHANGED chan
    /\ UNCHANGED notChanVars

\* history = _histories.get(user_id, []), then the call of agent.run
HandleStart(h, u) ==
    /\ MayStart(h)
    /\ handlers' = [handlers EXCEPT ![h] =
                      [pc |-> "running", user |-> u,
                       history |-> chan.histories[u], exchange |-> <<>>]]
    /\ UNCHANGED chan
    /\ UNCHANGED notChanVars

\* agent.run returns (reply, messages): it has saved the last MAX_HISTORY
\* messages unless the save failed; the handler stores history[-40:]
HandleRunReturns(h, k, save_ok) ==
    /\ handlers[h].pc = "running"
    /\ LET u == handlers[h].user
           new == [i \in 1..k |-> chan.next + i - 1]
           msgs == HistoryForRun(handlers[h].history, chan.histories[u]) \o new
       IN /\ chan' = [chan EXCEPT
                        !.histories[u] = KeepLast(msgs),
                        !.last[u] = msgs,
                        !.saved[u] = IF save_ok
                                     THEN [saved |-> TRUE, msgs |-> msgs,
                                           rows |-> LastN(msgs, MAX_HISTORY)]
                                     ELSE @,
                        !.next = @ + k]
          /\ handlers' = [handlers EXCEPT ![h].pc = "done",
                                          ![h].exchange = new]
    /\ UNCHANGED notChanVars

NoneRunning == \A h \in Handlers : handlers[h].pc # "running"
(***************************************************************************)
(* The websocket endpoint (channels/api.py websocket_endpoint).  A text    *)
(* frame is described by what the handler looks at: its length, what       *)
(* json.loads makes of it, what its "content" entry is, and the length of  *)
(* the content once stripped                                               *)
(***************************************************************************)
MAX_MESSAGE_LENGTH == 4096
MaxFrames == 3

Frame(len, json, content, stripped) ==
    [len |-> len, json |-> json, content |-> content, stripped |-> stripped]

\* json: "invalid" (json.loads raises JSONDecodeError), "object", or another
\* JSON value; content: "absent", "str", or a value that is not a string
Frames ==
    { Frame(9000, "object", "str", 5),
      Frame(8193, "invalid", "absent", 0),
      Frame(10, "invalid", "absent", 0),
      Frame(2, "object", "absent", 0),
      Frame(20, "object", "str", 0),
      Frame(20, "object", "str", 3),
      Frame(4120, "object", "str", 4096),
      Frame(4121, "object", "str", 4097),
      Frame(3, "array", "absent", 0),
      Frame(1, "number", "absent", 0),
      Frame(15, "object", "other", 0) }

FixedReplies == {"Message too long.", "Invalid message format.",
                 "Please enter a message."}

\* len(user_text) > _MAX_MESSAGE_LENGTH
TextTooLong(f) == f.stripped > MAX_MESSAGE_LENGTH

\* what one turn of the loop does with a frame: a fixed reply, a call of
\* agent.run, or an exception other than WebSocketDisconnect
FrameOutcome(f) ==
    IF f.len > MAX_MESSAGE_LENGTH * 2 THEN "Message too long."
    ELSE IF f.json = "invalid" THEN "Invalid message format."
    ELSE IF f.json # "object" THEN "AttributeError"
    ELSE IF f.content = "other" THEN "AttributeError"
    ELSE IF f.content = "absent" \/ f.stripped = 0
         THEN "Please enter a message."
    ELSE IF TextTooLong(f) THEN "Message too long."
    ELSE "run"

SockEmpty == [state |-> "open", frames |-> <<>>, sent |-> <<>>, runs |-> <<>>]
SockIdle == sock = [SockEmpty EXCEPT !.state = "closed"]
SockInit == sock = SockEmpty

\* one turn of `while True`: receive_text returns a frame
WsReceive(f, run_ok) ==
    /\ sock.state = "open"
    /\ Len(sock.frames) < MaxFrames
    /\ LET o == FrameOutcome(f)
       IN sock' =
            IF o \in FixedReplies
            THEN [sock EXCEPT !.frames = Append(@, f), !.sent = Append(@, o)]
            ELSE IF o = "run"
            THEN IF run_ok
                 THEN [sock EXCEPT !.frames = Append(@, f),
                                   !.runs = Append(@, f.stripped),
                                   !.sent = Append(@, "reply")]
                 ELSE [sock EXCEPT !.frames = Append(@, f),
                                   !.runs = Append(@, f.stripped),
                                   !.state = "failed"]
            ELSE [sock EXCEPT !.frames = Append(@, f), !.state = "failed"]
    /\ UNCHANGED notSockVars

\* receive_text raises WebSocketDisconnect
WsDisconnect ==
    /\ sock.state = "open"
    /\ sock' = [sock EXCEPT !.state = "closed"]
    /\ UNCHANGED notSockVars
(***************************************************************************)
(* Sending a reply in pieces (channels/telegram.py _handle_message,        *)
(* channels/discord_.py _Bot.on_message)                                   *)
(***************************************************************************)
TELEGRAM_CHUNK == 4000
DISCORD_CHUNK == 1990
ChunkSize(channel) == IF channel = "telegram" THEN TELEGRAM_CHUNK ELSE DISCORD_CHUNK

\* a slice that takes one character more
Slice_closed(s, i, j) ==
    SubSeq(s, i + 1, IF j + 1 <= Len(s) THEN j + 1 ELSE Len(s))

\* s[i:j] for 0 <= i <= j
Slice(s, i, j) == SubSeq(s, i + 1, IF j <= Len(s) THEN j ELSE Len(s))

\* ---- bounded replies: a reply of n characters, each told apart by its place
ReplyLengths == {0, 1, 1989, 1990, 1991, 2000, 3980, 3981, 4000, 4001, 4096,
                 7999, 8000, 8001, 9950}
Reply(n) == [k \in 1..n |-> k]

NoReply == [channel |-> "", reply |-> <<>>, i |-> 0, sent |-> <<>>, done |-> TRUE]
ChunkIdle == chunks = NoReply
ChunkInit ==
    chunks \in [channel : {"telegram", "discord"},
                reply : {Reply(n) : n \in ReplyLengths},
                i : {0}, sent : {<<>>}, done : {FALSE}]

\* one turn of `for i in range(0, len(reply), size)`: the piece is sent
SendPiece ==
    /\ ~chunks.done
    /\ chunks.i < Len(chunks.reply)
    /\ LET size == ChunkSize(chunks.channel) IN
         chunks' = [chunks EXCEPT
                      !.sent = Append(@, Slice(chunks.reply, chunks.i,
                                               chunks.i + size)),
                      !.i = @ + size]
    /\ UNCHANGED notChunkVars

\* the range is exhausted
PiecesSent ==
    /\ ~chunks.done
    /\ chunks.i >= Len(chunks.reply)
    /\ chunks' = [chunks EXCEPT !.done = TRUE]
    /\ UNCHANGED notChunkVars
(***************************************************************************)
(* main.start(): channels, scheduler, web server, and the finally block    *)
(***************************************************************************)
ChannelList == <<"telegram", "discord", "slack", "teams">>
\* the cron strings are told apart by their number of fields
MaxCronFields == 6

\* a channel does network work in start() and stop() only when its tokens
\* are configured; TeamsChannel.stop is `pass`
CanRaise(ch, configured) == ch \in configured /\ ch # "teams"

\* len(parts) == 5
FiveFields(n) == n = 5

\* scheduler.shutdown(wait=False) on a scheduler whose start() was never
\* called: APScheduler raises SchedulerNotRunningError, from the call itself
\* or, in releases that defer the call to the event loop, inside the loop
ShutdownOutcomes(sched) ==
    IF sched = "running" THEN {"ok"} ELSE {"raises", "ok"}

ProcAt(cron, configured) ==
    [pc |-> "channels", i |-> 1, cron |-> cron, configured |-> configured,
     started |-> <<>>, sched |-> "none", server |-> "not served",
     stopped |-> <<>>, error |-> ""]
ProcIdle == proc = [ProcAt(5, {}) EXCEPT !.pc = "returned"]
ProcInit ==
    \E cron \in 0..MaxCronFields, configured \in SUBSET {"telegram", "discord",
                                                        "slack", "teams"} :
        proc = ProcAt(cron, configured)

\* for ch in channels: await ch.start()
StartChannel(start_ok) ==
    /\ proc.pc = "channels"
    /\ LET ch == ChannelList[proc.i] IN
         IF ~start_ok /\ CanRaise(ch, proc.configured)
         THEN proc' = [proc EXCEPT !.pc = "raised", !.error = "start"]
         ELSE proc' = [proc EXCEPT
                         !.started = Append(@, ch),
                         !.i = IF proc.i = Len(ChannelList) THEN 1 ELSE @ + 1,
                         !.pc = IF proc.i = Len(ChannelList)
                                THEN "scheduler" ELSE @]
    /\ UNCHANGED notProcVars

\* scheduler = AsyncIOScheduler(); with five fields the trigger is built,
\* the job added and the scheduler started
SetUpScheduler(trigger_ok) ==
    /\ proc.pc = "scheduler"
    /\ proc' =
         IF ~FiveFields(proc.cron)
         THEN [proc EXCEPT !.sched = "created", !.pc = "serve"]
         ELSE IF trigger_ok
         THEN [proc EXCEPT !.sched = "running", !.pc = "serve"]
         ELSE [proc EXCEPT !.sched = "created", !.pc = "raised",
                           !.error = "trigger"]
    /\ UNCHANGED notProcVars

\* await server.serve() returns or raises; the finally block is entered
Serve(serve_ok) ==
    /\ proc.pc = "serve"
    /\ proc' = [proc EXCEPT
                  !.server = IF serve_ok THEN "returned" ELSE "failed",
                  !.error = IF serve_ok THEN "" ELSE "serve",
                  !.pc = "finally"]
    /\ UNCHANGED notProcVars

\* finally: scheduler.shutdown(wait=False)
ShutdownScheduler(outcome) ==
    /\ proc.pc = "finally"
    /\ outcome \in ShutdownOutcomes(proc.sched)
    /\ proc' = IF outcome = "ok"
               THEN [proc EXCEPT !.sched = "shut down", !.pc = "stopping"]
               ELSE [proc EXCEPT !.pc = "raised", !.error = "shutdown"]
    /\ UNCHANGED notProcVars

\* finally: for ch in channels: await ch.stop()
StopChannel(stop_ok) ==
    /\ proc.pc = "stopping"
    /\ LET ch == ChannelList[proc.i] IN
         IF ~stop_ok /\ CanRaise(ch, proc.configured)
         THEN proc' = [proc EXCEPT !.pc = "raised", !.error = "stop"]
         ELSE proc' = [proc EXCEPT
                         !.stopped = Append(@, ch),
                         !.i = IF proc.i = Len(ChannelList) THEN 1 ELSE @ + 1,
                         !.pc = IF proc.i < Len(ChannelList) THEN @
                                ELSE IF proc.server = "failed" THEN "raised"
                                ELSE "returned"]
    /\ UNCHANGED notProcVars
(***************************************************************************)
(* _update_watchlist (agent/tools.py) on the stored watchlist              *)
(***************************************************************************)
\* str.upper() on one character
UpperChar(c) ==
    IF \E i \in 1..Len(LowerChars) : LowerChars[i] = c
    THEN UpperChars[CHOOSE i \in 1..Len(LowerChars) : LowerChars[i] = c]
    ELSE c

\* str.upper()
Upper(s) == [i \in 1..Len(s) |-> UpperChar(s[i])]

\* x in lst
InList(x, lst) == \E i \in 1..Len(lst) : lst[i] = x

\* an add that does not look at the list
AddTicker_always(current, t) == Append(current, Upper(t))

\* if t.upper() not in current: current.append(t.upper())
AddTicker(current, t) ==
    IF InList(Upper(t), current) THEN current ELSE Append(current, Upper(t))

\* current.remove(t.upper()), ValueError passed over: the first occurrence
\* goes, if there is one
RemoveTicker(current, t) ==
    IF ~InList(Upper(t), current) THEN current
    ELSE LET i == CHOOSE k \in 1..Len(current) :
                     /\ current[k] = Upper(t)
                     /\ \A j \in 1..(k - 1) : current[j] # Upper(t)
         IN SubSeq(current, 1, i - 1) \o SubSeq(current, i + 1, Len(current))

RECURSIVE AddLoop(_, _)
\* for t in add
AddLoop(current, add) ==
    IF add = <<>> THEN current
    ELSE AddLoop(AddTicker(current, Head(add)), Tail(add))

RECURSIVE RemoveLoop(_, _)
\* for t in remove
RemoveLoop(current, remove) ==
    IF remove = <<>> THEN current
    ELSE RemoveLoop(RemoveTicker(current, Head(remove)), Tail(remove))

\* ---- bounded inputs of _update_watchlist
MaxStored == 2     \* tickers of the stored watchlist
MaxEdits == 2      \* tickers in add, and in remove
TickerPool == {<<"a">>, <<"A">>, <<"b">>}
TickerLists(n) == UNION {[1..k -> TickerPool] : k \in 0..n}
NoDuplicates(lst) ==
    \A i, j \in 1..Len(lst) : lst[i] = lst[j] => i = j
\* no row, or a row whose list has no duplicates
StoredWatchlists ==
    {[exists |-> FALSE, tickers |-> <<>>]} \cup
    {[exists |-> TRUE, tickers |-> l] :
        l \in {m \in TickerLists(MaxStored) : NoDuplicates(m)}}

NotUpdated == [done |-> FALSE, saved |-> FALSE, tickers |-> <<>>, result |-> ""]
WatchAt(user_id, stored, add, remove) ==
    [user_id |-> user_id, stored |-> stored, add |-> add, remove |-> remove,
     out |-> NotUpdated]
WatchIdle ==
    watch = [WatchAt("", [exists |-> FALSE, tickers |-> <<>>], <<>>, <<>>)
                EXCEPT !.out.done = TRUE]
WatchInit ==
    \E user_id \in {"", "u1"}, stored \in StoredWatchlists,
       add \in TickerLists(MaxEdits), remove \in TickerLists(MaxEdits) :
        watch = WatchAt(user_id, stored, add, remove)

\* one call of _update_watchlist
UpdateWatchlist ==
    /\ ~watch.out.done
    /\ watch' =
         IF watch.user_id = ""
         THEN [watch EXCEPT !.out = [done |-> TRUE, saved |-> FALSE,
                                     tickers |-> <<>>, result |-> "error"]]
         ELSE LET current == IF watch.stored.exists
                             THEN watch.stored.tickers ELSE <<>>
                  final == RemoveLoop(AddLoop(current, watch.add), watch.remove)
              IN [watch EXCEPT !.out = [done |-> TRUE, saved |-> TRUE,
                                        tickers |-> final,
                                        result |-> "tickers"]]
    /\ UNCHANGED notWatchVars

\* every part of the application at rest
AppIdle ==
    /\ PydIdle /\ StoreIdle /\ ChanIdle /\ SockIdle /\ ChunkIdle /\ ProcIdle
    /\ WatchIdle

CoreIdle == ParseIdle /\ RegInit /\ ToolIdle /\ RunIdle /\ LlmIdle

(***************************************************************************)
(* Specifications                                                          *)
(***************************************************************************)
\* parse_model_string on every bounded input
InitParse == ParseInit /\ RegInit /\ ToolIdle /\ RunIdle /\ LlmIdle /\ AppIdle
SpecParse == InitParse /\ [][Parse]_vars

\* get_provider and clear_cache called from several threads
RegNext ==
    \/ \E t \in Threads, m \in ModelStrings : GetProvider(t, m)
    \/ \E t \in Threads : ImportFails(t)
    \/ \E t \in Threads : LoadModule(t)
    \/ \E t \in Threads : StoreInstance(t)
    \/ ClearCache

InitRegistry == ParseIdle /\ RegInit /\ ToolIdle /\ RunIdle /\ LlmIdle /\ AppIdle
SpecRegistry == InitRegistry /\ [][RegNext]_vars

\* the same calls one after another
SeqNext ==
    \/ \E t \in Threads, m \in ModelStrings : GetProviderSeq(t, m)
    \/ \E t \in Threads : ImportFails(t)
    \/ \E t \in Threads : LoadModule(t)
    \/ \E t \in Threads : StoreInstance(t)
    \/ ClearCacheSeq

SpecSequential == InitRegistry /\ [][SeqNext]_vars

\* execute_tool on every bounded request
InitTool == ParseIdle /\ RegInit /\ ToolInit /\ RunIdle /\ LlmIdle /\ AppIdle
SpecTool == InitTool /\ [][ExecuteTool]_vars

\* one run() invocation against a model that asks for tools, answers or fails
Next ==
    \/ RunStart
    \/ \E text \in Texts : ModelAnswers(text)
    \/ ModelRequestsTools
    \/ ExecutePending
    \/ ModelFails
    \/ RunFinish

Init == ParseIdle /\ RegInit /\ ToolIdle /\ RunInit /\ LlmIdle /\ AppIdle
Spec == Init /\ [][Next]_vars

\* each adapter's _convert_messages on every bounded message list
ConvNext ==
    \/ AnthropicConvert
    \/ GeminiConvert
    \/ BedrockConvert

InitConvert ==
    ParseIdle /\ RegInit /\ ToolIdle /\ RunIdle /\ ConvInit /\ StripIdle /\ CompIdle
    /\ AppIdle
SpecConvert == InitConvert /\ [][ConvNext]_vars

\* _strip_defaults on every bounded schema, then on its own result
StripNext ==
    \/ StripDefaults
    \/ StripAgain

InitStrip ==
    ParseIdle /\ RegInit /\ ToolIdle /\ RunIdle /\ ConvIdle /\ StripInit /\ CompIdle
    /\ AppIdle
SpecStrip == InitStrip /\ [][StripNext]_vars

\* concurrent run() invocations of one user on one channel
StoreNext ==
    \/ \E t \in Sessions : RunBegins(t)
    \/ \E t \in Sessions : SelectUser(t)
    \/ \E t \in Sessions : InsertUser(t)
    \/ \E t \in Sessions : LoadConversation(t)
    \/ \E t \in Sessions : AgentRuns(t)
    \/ \E t \in Sessions : SaveSelectConversation(t)
    \/ \E t \in Sessions : SaveCommit(t)
    \/ LaterGetConversation

InitStore ==
    /\ CoreIdle /\ PydIdle /\ StoreInit /\ ChanIdle /\ SockIdle /\ ChunkIdle
    /\ ProcIdle /\ WatchIdle
SpecStore == InitStore /\ [][StoreNext]_vars

\* messages of the channel handled concurrently
ChanNext ==
    \/ \E h \in Handlers, u \in ChatUsers : HandleEmpty(h, u)
    \/ \E h \in Handlers, u \in ChatUsers : HandleStart(h, u)
    \/ \E h \in Handlers, k \in RunGrowth, save_ok \in BOOLEAN :
            HandleRunReturns(h, k, save_ok)

InitChannel ==
    /\ CoreIdle /\ PydIdle /\ StoreIdle /\ ChanInit /\ SockIdle /\ ChunkIdle
    /\ ProcIdle /\ WatchIdle
SpecChannel == InitChannel /\ [][ChanNext]_vars

\* the same messages handled one after another
ChanSeqNext ==
    \/ \E h \in Handlers, u \in ChatUsers : NoneRunning /\ HandleEmpty(h, u)
    \/ \E h \in Handlers, u \in ChatUsers : NoneRunning /\ HandleStart(h, u)
    \/ \E h \in Handlers, k \in RunGrowth, save_ok \in BOOLEAN :
            HandleRunReturns(h, k, save_ok)

SpecChannelSeq == InitChannel /\ [][ChanSeqNext]_vars

\* one websocket connection
SockNext ==
    \/ \E f \in Frames, run_ok \in BOOLEAN : WsReceive(f, run_ok)
    \/ WsDisconnect

InitSocket ==
    /\ CoreIdle /\ PydIdle /\ StoreIdle /\ ChanIdle /\ SockInit /\ ChunkIdle
    /\ ProcIdle /\ WatchIdle
SpecSocket == InitSocket /\ [][SockNext]_vars

\* one configured model string, read by the registry and by the agent
SettingsNext ==
    \/ Parse
    \/ PydanticAiModel

InitSettings ==
    /\ ParseInit /\ RegInit /\ ToolIdle /\ RunIdle /\ LlmIdle
    /\ PydInit /\ StoreIdle /\ ChanIdle /\ SockIdle /\ ChunkIdle /\ ProcIdle
    /\ WatchIdle
SpecSettings == InitSettings /\ [][SettingsNext]_vars

\* one reply sent by the Telegram or the Discord handler
ChunkNext ==
    \/ SendPiece
    \/ PiecesSent

InitChunks ==
    /\ CoreIdle /\ PydIdle /\ StoreIdle /\ ChanIdle /\ SockIdle /\ ChunkInit
    /\ ProcIdle /\ WatchIdle
SpecChunks == InitChunks /\ [][ChunkNext]_vars

\* one call of start()
MainNext ==
    \/ \E start_ok \in BOOLEAN : StartChannel(start_ok)
    \/ \E trigger_ok \in BOOLEAN : SetUpScheduler(trigger_ok)
    \/ \E serve_ok \in BOOLEAN : Serve(serve_ok)
    \/ \E outcome \in {"ok", "raises"} : ShutdownScheduler(outcome)
    \/ \E stop_ok \in BOOLEAN : StopChannel(stop_ok)

InitMain ==
    /\ CoreIdle /\ PydIdle /\ StoreIdle /\ ChanIdle /\ SockIdle /\ ChunkIdle
    /\ ProcInit /\ WatchIdle
SpecMain == InitMain /\ [][MainNext]_vars

\* _update_watchlist on every bounded request
InitWatch ==
    /\ CoreIdle /\ PydIdle /\ StoreIdle /\ ChanIdle /\ SockIdle /\ ChunkIdle
    /\ ProcIdle /\ WatchInit
SpecWatch == InitWatch /\ [][UpdateWatchlist]_vars

\* one complete() call on each adapter, against every bounded vendor behaviour
CompleteNext ==
    \/ \E prefix \in {"openai", "groq"} : OpenAIComplete(prefix)
    \/ LiteLLMComplete
    \/ MistralComplete
    \/ AnthropicComplete
    \/ GeminiComplete
    \/ BedrockComplete

InitComplete ==
    ParseIdle /\ RegInit /\ ToolIdle /\ RunIdle /\ ConvIdle /\ StripIdle /\ CompInit
    /\ AppIdle
SpecComplete == InitComplete /\ [][CompleteNext]_vars

(***************************************************************************)
(* Properties                                                              *)
(***************************************************************************)

\* C1: every run() invocation makes at most 10 model rounds, and a run whose
\* ten rounds all requested tools returns the fixed fallback message
C1_TenRoundBudget ==
    /\ rounds <= 10
    /\ (rout.done /\ Len(requested) >= 10 * rin.calls_per_round
            => rout.reply = "having trouble completing this analysis")

\* C2: when the model's response has no tool calls, run() returns exactly
\* that text, and the returned list ends with the assistant message holding it
C2_FinalTextReturned ==
    rout.done =>
        /\ rout.reply = output
        /\ rout.messages # <<>>
        /\ rout.messages[Len(rout.messages)] = AssistantMsg(output)

C2_Witness ==
    /\ rout.done
    /\ rounds = 1
    /\ rout.reply = "AAPL is $150"
    /\ Len(rout.messages) = 4

IsToolMsg(m) == m.role = "tool"
\* call ids of the tool messages this run appended, in list order
ToolIdsAppended ==
    LET new == SubSeq(messages, base + 2, Len(messages))
        tools == SelectSeq(new, IsToolMsg)
    IN [i \in 1..Len(tools) |-> tools[i].call_id]

C4_NoRetryAfterProviderError ==
    [][ /\ (failed' => rpc' = "raised")
        /\ (failed => UNCHANGED <<rounds, executed, messages, rout>>) ]_vars

C4_Witness ==
    /\ failed
    /\ rpc = "raised"
    /\ rounds = 3
    /\ Len(executed) = 2

\* C5: execute_tool returns a string and never raises; a failure inside the
\* tool, a missing required argument included, gives an object with an
\* "error" key, and an unknown name gives the "Unknown tool" error object
C5_ExecuteToolNeverRaises ==
    tout.done =>
        /\ ~tout.raised
        /\ tout.type = "str"
        /\ (tout.failed_inside => "error" \in tout.json.keys)
        /\ (Required(tin.name) \ DOMAIN tin.arguments # {}
                => "error" \in tout.json.keys)
        /\ (tin.name \notin KnownTools
                => tout.json = Dict({"error"}, <<"Unknown tool: ", tin.name>>))

C5_Witness ==
    /\ tout.done
    /\ tin.name = "get_quote"
    /\ "ticker" \notin DOMAIN tin.arguments
    /\ tout.json = Dict({"error"}, <<"KeyError", "ticker">>)

\* the case-folded text before the first '/' of a model string, empty if none
FoldedPrefix(s) ==
    IF ~Contains(s, "/") THEN <<>>
    ELSE LET k == CHOOSE k \in 1..Len(s) :
                    s[k] = "/" /\ \A j \in 1..(k - 1) : s[j] # "/"
         IN Lower(SubSeq(s, 1, k - 1))

Returned(i) == log[i].outcome = "returned"
KnownCall(i) == Returned(i) /\ FoldedPrefix(log[i].given) \in KnownPrefixes
FallbackCall(i) == Returned(i) /\ FoldedPrefix(log[i].given) \notin KnownPrefixes

\* C6: of two get_provider calls with no clear_cache between them, those with
\* the same case-folded known prefix return the same instance and those with
\* different known prefixes return different instances
C6_OneInstancePerPrefix ==
    \A i, j \in 1..Len(log) :
        (i < j /\ KnownCall(i) /\ KnownCall(j) /\ log[i].epoch = log[j].epoch) =>
            (FoldedPrefix(log[i].given) = FoldedPrefix(log[j].given)
                <=> log[i].provider.id = log[j].provider.id)

C6_Witness ==
    /\ Len(log) = 2
    /\ log[1].given = P_groq \o <<"/", "m">>
    /\ log[2].given = P_together \o <<"/", "m", "/", "L">>
    /\ Returned(1) /\ Returned(2)
    /\ log[1].epoch = log[2].epoch
    /\ log[1].provider.cls = log[2].provider.cls
    /\ log[1].provider.id # log[2].provider.id

\* C7: with calls running concurrently and no clear_cache, the adapter of a
\* known prefix is constructed once and every call returns that instance
C7_ConstructedOnceUnderConcurrency ==
    epoch = 0 =>
        \A k \in KnownPrefixes :
            /\ Cardinality({b \in built : b.prefix = k}) <= 1
            /\ \A i, j \in 1..Len(log) :
                 (KnownCall(i) /\ KnownCall(j) /\ log[i].key = k /\ log[j].key = k)
                    => log[i].provider = log[j].provider

\* C8 as stated: every model string with an empty or unknown prefix gets the
\* same fallback instance on every call and its full text as model id
C8_FallbackForEveryString ==
    \A i \in 1..Len(log) :
        FallbackCall(i) =>
            /\ log[i].provider.cls = "LiteLLMProvider"
            /\ log[i].model_id = log[i].given
            /\ \A j \in 1..Len(log) :
                 FallbackCall(j) => log[j].provider.id = log[i].provider.id

\* C8: every non-empty model string with an empty or unknown prefix gets the
\* fallback adapter, the same instance on every such call until clear_cache,
\* and its full text as model id
C8_FallbackForNonEmptyString ==
    \A i \in 1..Len(log) :
        (FallbackCall(i) /\ log[i].given # <<>>) =>
            /\ log[i].provider.cls = "LiteLLMProvider"
            /\ log[i].model_id = log[i].given
            /\ \A j \in 1..Len(log) :
                 (FallbackCall(j) /\ log[j].given # <<>>
                     /\ log[j].epoch = log[i].epoch)
                    => log[j].provider.id = log[i].provider.id

C8_Witness ==
    /\ Len(log) = 2
    /\ log[1].given = <<"x", "/", "m">>
    /\ log[2].given = <<"/", "m">>
    /\ Returned(1) /\ Returned(2)
    /\ log[1].model_id = <<"x", "/", "m">>
    /\ log[2].model_id = <<"/", "m">>
    /\ log[1].provider = log[2].provider

\* C9: parse_model_string splits at the first '/' only: the part before it
\* lower-cased, the part after it unchanged; without a '/' the prefix is empty
C9_SplitAtFirstSlash ==
    pout.done =>
        IF \E k \in 1..Len(pin) : pin[k] = "/"
        THEN /\ Len(pin) = Len(pout.prefix) + 1 + Len(pout.model_id)
             /\ pin[Len(pout.prefix) + 1] = "/"
             /\ \A k \in 1..Len(pout.prefix) :
                    pin[k] # "/" /\ pout.prefix[k] = LowerChar(pin[k])
             /\ \A k \in 1..Len(pout.model_id) :
                    pout.model_id[k] = pin[Len(pout.prefix) + 1 + k]
        ELSE pout.prefix = <<>> /\ pout.model_id = pin

C9_Witness ==
    /\ pout.done
    /\ pin = <<"B", "/", "B", "/">>
    /\ pout.prefix = <<"b">>
    /\ pout.model_id = <<"B", "/">>

\* C10: a get_provider call that fails because the client library is missing
\* fails with the error that names the package and how to install it
C10_ImportErrorIsDescriptive ==
    \A i \in 1..Len(log) :
        log[i].outcome \in {"ImportError", "raw_ImportError"} =>
            /\ log[i].outcome = "ImportError"
            /\ log[i].pkg = ClientLibrary(log[i].module)
            /\ log[i].hint = "uv add"

(***************************************************************************)
(* Properties of the message conversions                                   *)
(***************************************************************************)
AnthropicDone == cout.done /\ cout.adapter = "anthropic" /\ ~cout.r.raised
GeminiDone == cout.done /\ cout.adapter = "gemini" /\ ~cout.r.raised

\* first positions of the maximal runs of consecutive tool messages
ToolRunStarts(ms) ==
    {i \in 1..Len(ms) :
        ms[i].role = "tool" /\ (i = 1 \/ ms[i - 1].role # "tool")}
\* last position of the run that starts at i
ToolRunEnd(ms, i) ==
    CHOOSE e \in i..Len(ms) :
        /\ \A j \in i..e : ms[j].role = "tool"
        /\ (e = Len(ms) \/ ms[e + 1].role # "tool")
\* the k-th run start, counted from the front
NthStart(ms, k) ==
    CHOOSE i \in ToolRunStarts(ms) :
        Cardinality({j \in ToolRunStarts(ms) : j < i}) = k - 1
IsToolResultTurn(t) == t.role = "user" /\ t.blocks # <<>>
ToolResultTurns == SelectSeq(cout.r.msgs, IsToolResultTurn)

\* C14: in the Anthropic conversion every maximal run of consecutive tool
\* messages becomes exactly one user message whose content is the
\* tool_result blocks of that run, in original order, each with its own
\* tool_call_id; no tool message of a run is emitted as a message of its own.
C14_ToolRunsCoalesced ==
    AnthropicDone =>
        /\ Len(ToolResultTurns) = Cardinality(ToolRunStarts(cin))
        /\ \A k \in 1..Len(ToolResultTurns) :
             LET i == NthStart(cin, k)
                 e == ToolRunEnd(cin, i)
             IN ToolResultTurns[k].blocks =
                  [j \in 1..(e - i + 1) |->
                     Block("tool_result", GetContent(cin[i + j - 1], <<>>),
                           cin[i + j - 1].tool_call_id, "", "none")]

\* a converted list with a run of two tool messages after another message
C14_Witness ==
    /\ AnthropicDone
    /\ \E i \in 2..(Len(cin) - 1) :
         /\ cin[i].role = "tool" /\ cin[i + 1].role = "tool"
         /\ cin[i].tool_call_id # cin[i + 1].tool_call_id
         /\ cin[i - 1].role = "assistant"
    /\ Len(cout.r.msgs) = Len(cin) - 1

\* positions of the tool messages, and the k-th of them
ToolPositions(ms) == {i \in 1..Len(ms) : ms[i].role = "tool"}
NthTool(ms, k) ==
    CHOOSE i \in ToolPositions(ms) :
        Cardinality({j \in ToolPositions(ms) : j < i}) = k - 1
\* the assistant tool calls before position i that carry this id
EarlierCalls(ms, i, id) ==
    {p \in (1..(i - 1)) \X (1..2) :
        /\ ms[p[1]].role = "assistant"
        /\ p[2] <= Len(ms[p[1]].tool_calls)
        /\ ms[p[1]].tool_calls[p[2]].id = id}
LatestCall(ms, i, id) ==
    CHOOSE p \in EarlierCalls(ms, i, id) :
        \A q \in EarlierCalls(ms, i, id) :
            q[1] < p[1] \/ (q[1] = p[1] /\ q[2] <= p[2])
ExpectedFnName(ms, i) ==
    LET id == GetToolCallId(ms[i], "") IN
    IF EarlierCalls(ms, i, id) = {} THEN "unknown"
    ELSE LET p == LatestCall(ms, i, id) IN ms[p[1]].tool_calls[p[2]].name
IsFunctionResponseTurn(t) ==
    Len(t.blocks) = 1 /\ t.blocks[1].type = "function_response"
FunctionResponseTurns == SelectSeq(cout.r.msgs, IsFunctionResponseTurn)

\* C15: in the Gemini conversion each tool message yields one
\* function_response named after the earlier assistant tool call with the same
\* id, or "unknown" when no earlier assistant turn carried that id; an unseen
\* id never makes the conversion fail.
C15_FunctionResponseNames ==
    (cout.done /\ cout.adapter = "gemini") =>
        /\ cout.r.raised =>
             \E i \in 1..Len(cin) :
                /\ cin[i].role = "assistant"
                /\ \E k \in 1..Len(cin[i].tool_calls) :
                     ~JsonLoadsOk(cin[i].tool_calls[k].arguments)
        /\ ~cout.r.raised =>
             /\ Len(FunctionResponseTurns) = Cardinality(ToolPositions(cin))
             /\ \A k \in 1..Len(FunctionResponseTurns) :
                  FunctionResponseTurns[k].blocks[1].name =
                      ExpectedFnName(cin, NthTool(cin, k))

\* a converted list with one tool result of a seen id and one of an unseen id
C15_Witness ==
    /\ GeminiDone
    /\ \E i, j \in ToolPositions(cin) :
         /\ EarlierCalls(cin, i, GetToolCallId(cin[i], "")) # {}
         /\ EarlierCalls(cin, j, GetToolCallId(cin[j], "")) = {}
    /\ \E k \in 1..Len(FunctionResponseTurns) :
         FunctionResponseTurns[k].blocks[1].name = "unknown"
    /\ \E k \in 1..Len(FunctionResponseTurns) :
         FunctionResponseTurns[k].blocks[1].name = "get_quote"

\* what a wire message contributes to the turn sequence
Contribution(role, content, ids) ==
    [role |-> role, content |-> content, ids |-> ids]
IsTurnMessage(m) == m.role \in {"user", "assistant", "tool"}
ContributionOf(m) ==
    Contribution(m.role, GetContent(m, <<>>),
                 IF m.role = "tool" THEN <<m.tool_call_id>>
                 ELSE [k \in 1..Len(m.tool_calls) |-> m.tool_calls[k].id])
IsTextBlock(b) == b.type = "text"
IsIdBlock(b) == b.type # "text"
\* the wire messages a converted Anthropic message stands for
Origin(t) ==
    IF t.role = "assistant"
    THEN LET texts == SelectSeq(t.blocks, IsTextBlock)
             calls == SelectSeq(t.blocks, IsIdBlock)
         IN <<Contribution("assistant",
                           IF texts = <<>> THEN <<>> ELSE texts[1].text,
                           [k \in 1..Len(calls) |-> calls[k].id])>>
    ELSE IF t.blocks = <<>>
    THEN <<Contribution("user", t.text, <<>>)>>
    ELSE [j \in 1..Len(t.blocks) |->
            Contribution("tool", t.blocks[j].text, <<t.blocks[j].id>>)]
RECURSIVE Origins(_)
Origins(turns) ==
    IF Len(turns) = 0 THEN <<>>
    ELSE Origin(turns[1]) \o Origins(Tail(turns))
IsSystemMessage(m) == m.role = "system"
SystemContents(ms) ==
    LET sys == SelectSeq(ms, IsSystemMessage) IN
    [k \in 1..Len(sys) |-> GetContent(sys[k], <<>>)]
TurnMessages(ms) ==
    LET kept == SelectSeq(ms, IsTurnMessage) IN
    [k \in 1..Len(kept) |-> ContributionOf(kept[k])]

RECURSIVE WithBlankLines(_)
\* the parts in order, two line breaks between neighbours
WithBlankLines(parts) ==
    IF Len(parts) = 0 THEN <<>>
    ELSE IF Len(parts) = 1 THEN parts[1]
    ELSE parts[1] \o <<"\n", "\n">> \o WithBlankLines(Tail(parts))

\* C19: in the Anthropic conversion the system contents are joined in order
\* with a blank line between them into the one system text, no system message
\* appears among the converted turns, and the user, assistant and tool
\* messages keep their relative order.
C19_SystemJoinedTurnsInOrder ==
    AnthropicDone =>
        /\ cout.r.system = WithBlankLines(SystemContents(cin))
        /\ \A k \in 1..Len(cout.r.msgs) :
             cout.r.msgs[k].role \in {"user", "assistant"}
        /\ Origins(cout.r.msgs) = TurnMessages(cin)

\* two system messages around a user message
C19_Witness ==
    /\ AnthropicDone
    /\ Len(cin) = 3
    /\ cin[1].role = "system" /\ cin[2].role = "user" /\ cin[3].role = "system"
    /\ cin[1].content # cin[3].content
    /\ cout.r.system = cin[1].content \o <<"\n", "\n">> \o cin[3].content
    /\ Len(cout.r.msgs) = 1

(***************************************************************************)
(* Properties of _strip_defaults                                           *)
(***************************************************************************)
\* one step of a path into a JSON value: a dict key or a list position
KeyStep(k) == [key |-> k, pos |-> 0]
PosStep(i) == [key |-> "", pos |-> i]
IsNotDefault(k) == k # "default"

RECURSIVE NonDefaultPaths(_, _)
\* every node reached without going through a "default" key: its path, its
\* type, its scalar value, and for a dict its other keys in order
NonDefaultPaths(v, path) ==
    {[path |-> path, t |-> v.t, val |-> v.val,
      keys |-> SelectSeq(v.keys, IsNotDefault)]}
    \cup (IF v.t = "dict"
          THEN UNION {NonDefaultPaths(v.items[i],
                                      Append(path, KeyStep(v.keys[i]))) :
                         i \in {j \in 1..Len(v.keys) : v.keys[j] # "default"}}
          ELSE IF v.t = "list"
          THEN UNION {NonDefaultPaths(v.items[i], Append(path, PosStep(i))) :
                         i \in 1..Len(v.items)}
          ELSE {})

\* C16: _strip_defaults is idempotent, and every key other than "default", at
\* every nesting depth, is kept with its value and its position in nested
\* objects and arrays unchanged.
C16_StripIdempotentKeepsOtherKeys ==
    /\ sout.twice => sout.second = sout.first
    /\ sout.once => NonDefaultPaths(sout.first, <<>>) = NonDefaultPaths(sin, <<>>)

\* stripped twice: a schema whose default sits before a key holding a list
C16_Witness ==
    /\ sout.twice
    /\ sin.keys = <<"default", "type">>
    /\ sin.items[2].t = "list"
    /\ sout.first.keys = <<"type">>
    /\ sout.first.items = <<sin.items[2]>>

RECURSIVE HasDefault(_)
\* some dict inside v, at any depth, has a "default" key
HasDefault(v) ==
    \/ \E i \in 1..Len(v.keys) : v.keys[i] = "default"
    \/ \E i \in 1..Len(v.items) : HasDefault(v.items[i])

\* C17: the result of _strip_defaults has no "default" key at any nesting
\* depth, including inside objects nested in arrays and arrays nested in
\* arrays.
C17_NoDefaultAtAnyDepth ==
    sout.once => ~HasDefault(sout.first)

(***************************************************************************)
(* Properties of complete()                                                *)
(***************************************************************************)
\* C11: for every adapter and every vendor response it decodes, the result's
\* finish_reason is "tool_calls" if and only if its tool_calls sequence is
\* non-empty.
C11_ToolCallsIffFinishReason ==
    (cres.done /\ cres.kind = "result") =>
        ((cres.finish_reason = "tool_calls") <=> (cres.tool_calls # <<>>))

\* the vendor name an adapter tags its errors with
VendorName(adapter) == adapter

\* C12: complete() either returns a result or raises LLMError tagged with the
\* adapter's own vendor name; no other exception type escapes, whether the
\* failure is in encoding the messages, in the vendor call, or in decoding.
C12_OnlyLLMErrorEscapes ==
    cres.done =>
        /\ cres.kind \in {"result", "LLMError"}
        /\ cres.kind = "LLMError" => cres.provider = VendorName(call.adapter)

\* C13: for every adapter, a vendor call that times out is surfaced as an
\* LLMError whose retryable flag is true.
C13_TimeoutIsRetryable ==
    (cres.done /\ cres.kind = "LLMError" /\ call.vendor.raises
        /\ call.vendor.exc.timed_out) => cres.retryable

SentStopReason == VendorStopReason(call.adapter, call.vendor.kind)

\* C20: the Anthropic and Bedrock decoders map stop reason "tool_use" to
\* finish_reason "tool_calls", "max_tokens" to "length" and every other value,
\* a missing one included, to "stop"; the finish_reason is always one of
\* stop, tool_calls, length.
C20_StopReasonMapping ==
    (cres.done /\ cres.kind = "result"
        /\ call.adapter \in {"anthropic", "bedrock"}) =>
        /\ cres.finish_reason \in {"stop", "tool_calls", "length"}
        /\ cres.finish_reason =
             (CASE SentStopReason = "tool_use" -> "tool_calls"
                [] SentStopReason = "max_tokens" -> "length"
                [] OTHER -> "stop")

\* an Anthropic response that stopped for a reason other than the two mapped
C20_Witness ==
    /\ cres.done /\ cres.kind = "result" /\ call.adapter = "anthropic"
    /\ SentStopReason = "stop_sequence"
    /\ cres.finish_reason = "stop"

(***************************************************************************)
(* Properties of the Bedrock conversion                                    *)
(***************************************************************************)
BedrockDone == cout.done /\ cout.adapter = "bedrock" /\ ~cout.r.raised
IsToolResultBlockTurn(t) ==
    Len(t.blocks) = 1 /\ t.blocks[1].type = "toolResult"
BedrockToolTurns == SelectSeq(cout.r.msgs, IsToolResultBlockTurn)
\* the tool contents of the bounded lists that are JSON documents
ValidJsonContents == {<<"{", "}">>}

\* C21: in the Bedrock conversion every tool message becomes one user message
\* holding a toolResult whose toolUseId is the message's tool_call_id; its
\* json content is the decoded value when the tool content is valid JSON and
\* {"result": <raw string>} when it is not.
C21_BedrockToolResults ==
    BedrockDone =>
        /\ Len(BedrockToolTurns) = Cardinality(ToolPositions(cin))
        /\ \A k \in 1..Len(BedrockToolTurns) :
             LET m == cin[NthTool(cin, k)]
                 t == BedrockToolTurns[k]
             IN /\ t.role = "user"
                /\ m.tool_call_id # Absent => t.blocks[1].id = m.tool_call_id
                /\ t.blocks[1].text = m.content
                /\ t.blocks[1].payload =
                     (IF m.content \in ValidJsonContents
                      THEN "decoded" ELSE "wrapped")

\* one tool result that decodes and one that is wrapped, in the same list
C21_Witness ==
    /\ BedrockDone
    /\ \E j, k \in 1..Len(BedrockToolTurns) :
         /\ BedrockToolTurns[j].blocks[1].payload = "decoded"
         /\ BedrockToolTurns[j].blocks[1].id = "c1"
         /\ BedrockToolTurns[k].blocks[1].payload = "wrapped"
         /\ BedrockToolTurns[k].blocks[1].id = "c2"

(***************************************************************************)
(* Properties of the stored conversations                                  *)
(***************************************************************************)
\* C22: after any interleaving of concurrent run() invocations for the same
\* user and channel, each with its own session, the store holds at most one
\* conversation row for the pair, and a later get_conversation for the pair
\* does not fail because several rows match.
C22_OneConversationRowPerPair ==
    AllSessionsDone =>
        /\ Cardinality(ConvRows(pg, TheUser, Channel)) <= 1
        /\ pg.later # "MultipleResultsFound"

(***************************************************************************)
(* Properties of the channel histories                                     *)
(***************************************************************************)
Elems(q) == {q[i] : i \in 1..Len(q)}
IsTailOf(q, whole) ==
    /\ Len(q) <= Len(whole)
    /\ q = SubSeq(whole, Len(whole) - Len(q) + 1, Len(whole))
Min(a, b) == IF a <= b THEN a ELSE b

\* C23: when two messages of one user are handled concurrently, the history
\* stored once both handlers have finished contains the exchange of both.
C23_NoExchangeLost ==
    \A g, h \in Handlers :
        (/\ g # h
         /\ handlers[g].pc = "done" /\ handlers[h].pc = "done"
         /\ handlers[g].user = handlers[h].user
         /\ handlers[g].exchange # <<>> /\ handlers[h].exchange # <<>>
         /\ chan.next <= HISTORY_KEEP)
        => (Elems(handlers[g].exchange) \cup Elems(handlers[h].exchange))
              \subseteq Elems(chan.histories[handlers[g].user])

\* C27: after any sequence of handled messages the in-memory history of each
\* user has at most 40 entries and is the tail of the message list of that
\* user's latest run, and what a run persisted is the last min(40, n) of its
\* n messages.
C27_HistoryBoundedTail ==
    \A u \in ChatUsers :
        /\ Len(chan.histories[u]) <= 40
        /\ IsTailOf(chan.histories[u], chan.last[u])
        /\ Len(chan.histories[u]) = Min(40, Len(chan.last[u]))
        /\ chan.saved[u].saved =>
             /\ Len(chan.saved[u].rows) = Min(40, Len(chan.saved[u].msgs))
             /\ IsTailOf(chan.saved[u].rows, chan.saved[u].msgs)

\* a user whose second run returned more than 40 messages, saved
C27_Witness ==
    \E u \in ChatUsers :
        /\ Len(chan.last[u]) > 40
        /\ Len(chan.histories[u]) = 40
        /\ chan.histories[u][1] = chan.last[u][Len(chan.last[u]) - 39]
        /\ chan.saved[u].saved /\ chan.saved[u].msgs = chan.last[u]
        /\ \A h \in Handlers : handlers[h].pc = "done" /\ handlers[h].user = u

(***************************************************************************)
(* Properties of the websocket endpoint                                    *)
(***************************************************************************)
\* C24: every received text frame is answered with exactly one reply frame
\* and the connection keeps receiving; a frame that is too long, not valid
\* JSON or of empty content gets a fixed reply without a call of agent.run,
\* and agent.run is called only with stripped non-empty text of at most 4096
\* characters.
C24_EveryFrameAnswered ==
    /\ sock.state # "failed"
    /\ Len(sock.sent) = Len(sock.frames)
    /\ \A i \in 1..Len(sock.sent) :
          LET f == sock.frames[i]
          IN (f.len > 8192 \/ f.json = "invalid" \/ f.stripped = 0)
                => sock.sent[i] \in FixedReplies
    /\ Len(sock.runs) = Cardinality({i \in 1..Len(sock.sent) :
                                        sock.sent[i] = "reply"})
    /\ \A i \in 1..Len(sock.runs) : sock.runs[i] \in 1..4096

(***************************************************************************)
(* Properties of run() when the store fails                                *)
(***************************************************************************)
\* C25: a failure while loading or saving the history never changes the
\* outcome of run(): after a failed load the run starts from an empty
\* history, a failed save changes nothing, and run() still returns the
\* model's reply and the full message list.
C25_StoreFailuresAreHarmless ==
    /\ faults.load =>
          /\ rpc # "start"
          /\ base = 0
          /\ messages[1] = UserMsg(rin.user_message)
    /\ faults.save => rpc = "returned"
    /\ rpc = "returned" =>
          /\ rout.done
          /\ rout.reply = output
          /\ rout.messages = messages
          /\ Len(rout.messages) >= base + 2
          /\ rout.messages[Len(rout.messages)] = AssistantMsg(rout.reply)
    /\ rpc = "persist" => ENABLED RunFinish

\* a stored history that could not be loaded, and a save that failed
C25_Witness ==
    /\ rout.done
    /\ faults.load /\ faults.save
    /\ db = StoredDb
    /\ base = 0
    /\ rout.reply = "AAPL is $150"
    /\ Len(rout.messages) > 2

(***************************************************************************)
(* Properties of Settings.pydantic_ai_model                                *)
(***************************************************************************)
\* C26: for every model string that contains '/', pydantic_ai_model is the
\* string with exactly its first '/' replaced by ':', so that its two parts
\* are the parts parse_model_string returns (up to the case of the prefix).
C26_FirstSlashBecomesColon ==
    (pyd.done /\ pout.done /\ \E i \in 1..Len(pin) : pin[i] = "/") =>
        LET i == CHOOSE k \in 1..Len(pin) :
                    pin[k] = "/" /\ \A j \in 1..(k - 1) : pin[j] # "/"
        IN /\ pyd.value = [k \in 1..Len(pin) |-> IF k = i THEN ":" ELSE pin[k]]
           /\ Lower(SubSeq(pyd.value, 1, i - 1)) = pout.prefix
           /\ SubSeq(pyd.value, i + 1, Len(pyd.value)) = pout.model_id

(***************************************************************************)
(* Properties of the replies sent in pieces                                *)
(***************************************************************************)
RECURSIVE ConcatAll(_)
ConcatAll(pieces) ==
    IF pieces = <<>> THEN <<>> ELSE Head(pieces) \o ConcatAll(Tail(pieces))

\* C28: the Telegram handler sends the pieces reply[0:4000],
\* reply[4000:8000], ... in order and the Discord handler pieces of 1990
\* characters: the sent pieces concatenated are the reply, every piece is
\* non-empty and within the channel's limit (4096 and 2000), and an empty
\* reply sends nothing.
C28_PiecesCoverReply ==
    LET size == IF chunks.channel = "telegram" THEN 4000 ELSE 1990
        limit == IF chunks.channel = "telegram" THEN 4096 ELSE 2000
        n == Len(chunks.reply)
    IN /\ \A k \in 1..Len(chunks.sent) :
             /\ chunks.sent[k] # <<>>
             /\ Len(chunks.sent[k]) <= limit
             /\ chunks.sent[k] =
                  [j \in 1..Min(size, n - (k - 1) * size) |->
                      chunks.reply[(k - 1) * size + j]]
       /\ (chunks.done /\ chunks.channel # "") =>
             /\ ConcatAll(chunks.sent) = chunks.reply
             /\ (n = 0 => chunks.sent = <<>>)

\* a Telegram reply of 8001 characters sent as 4000 + 4000 + 1
C28_Witness ==
    /\ chunks.done
    /\ chunks.channel = "telegram"
    /\ Len(chunks.reply) = 8001
    /\ Len(chunks.sent) = 3
    /\ chunks.sent[3] = <<8001>>

(***************************************************************************)
(* Properties of main.start()                                              *)
(***************************************************************************)
\* C29: once the web server has returned or failed, stop() is called on
\* every channel, whatever the cron string is, including one that does not
\* have five fields: start() never ends with a channel left unstopped.
C29_EveryChannelStopped ==
    (proc.pc \in {"returned", "raised"} /\ proc.server # "not served") =>
        proc.stopped = <<"telegram", "discord", "slack", "teams">>

(***************************************************************************)
(* Properties of _update_watchlist                                         *)
(***************************************************************************)
UpperSet(lst) == {Upper(lst[i]) : i \in 1..Len(lst)}

\* C30: applied to a stored list without duplicates, _update_watchlist saves
\* a list without duplicates that keeps the other stored tickers in their
\* order, contains every upper-cased ticker of add whose upper-cased form is
\* not asked to be removed, and contains no upper-cased ticker of remove;
\* without a user id it saves nothing and returns an error object.
C30_WatchlistUpdate ==
    watch.out.done =>
        IF watch.user_id = ""
        THEN ~watch.out.saved /\ watch.out.result = "error"
        ELSE LET saved == watch.out.tickers
                 stored == watch.stored.tickers
                 gone == UpperSet(watch.remove)
             IN /\ watch.out.saved
                /\ \A i, j \in 1..Len(saved) : saved[i] = saved[j] => i = j
                /\ SelectSeq(saved, LAMBDA t : t \in Elems(stored))
                     = SelectSeq(stored, LAMBDA t : t \notin gone)
                /\ (UpperSet(watch.add) \ gone) \subseteq Elems(saved)
                /\ Elems(saved) \cap gone = {}
                /\ Elems(saved) \subseteq Elems(stored) \cup UpperSet(watch.add)

\* a stored list kept in order, one ticker added in upper case, and one that
\* is in both add and remove absent
C30_Witness ==
    /\ watch.out.done /\ watch.out.saved
    /\ watch.stored.tickers = <<<<"b">>, <<"A">>>>
    /\ watch.add = <<<<"b">>, <<"a">>>>
    /\ watch.remove = <<<<"a">>>>
    /\ watch.out.tickers = <<<<"b">>, <<"B">>>>

====
